---- MODULE Spec2Model ----
(***************************************************************************)
(* A model of the chess engine of dolovesvw/chess_ai: the position         *)
(* (state_manager.ChessState), the move generator                          *)
(* (move_generator.MoveGenerator), the evaluator                           *)
(* (evaluation.PositionEvaluator) and the search (ai_engine.ChessAI).      *)
(*                                                                         *)
(* A ChessState is a record.  Its board is a Python dict; a dict is a map  *)
(* together with the insertion order of its keys, which decides the order  *)
(* of every iteration over the board and so the order of the generated     *)
(* move list.  The map is the field board, the key order the field         *)
(* board_order.                                                            *)
(***************************************************************************)
EXTENDS Integers, Sequences, FiniteSets, TLC

\* state: the ChessState the game is played on;  ai: the ChessAI;  ret: what
\* the last call returned;  session: the GameSession of the controller;
\* threads: the game threads of the bot runner
VARIABLES state, ai, ret, session, threads

vars == <<state, ai, ret, session, threads>>

-----------------------------------------------------------------------------
(* Bounds of the model *)

\* plies played from the position the game starts in
MaxPly == 7

\* deepest iterative-deepening pass the clock lets get_best_move complete
MaxSearchDepth == 2

\* moves submitted to one game
MaxSubmitted == 4

\* game threads of the bot runner that search at the same time
MaxThreads == 2

\* largest difficulty handed to ChessAI (the levels are 1 to 5)
MaxDifficulty == 6

\* ply of a game from which on the engine is not asked for a move
MaxSearchedPly == 1

\* outcomes of one random.choice that are told apart
MaxChoice == 3

-----------------------------------------------------------------------------
(* state_manager.py: PieceType, PieceColor, ChessPiece *)

PAWN == "p"
KNIGHT == "n"
BISHOP == "b"
ROOK == "r"
QUEEN == "q"
KING == "k"

WHITE == "w"
BLACK == "b"

PieceType == {PAWN, KNIGHT, BISHOP, ROOK, QUEEN, KING}
PieceColor == {WHITE, BLACK}

ChessPiece(piece_type, color) == [piece_type |-> piece_type, color |-> color]

\* Python's None where a piece is expected, and where a square is expected
None == [piece_type |-> "None", color |-> "None"]
NoSquare == <<>>

\* the other colour (the conditional expression of make_move and of
\* _is_square_attacked)
Opponent(color) == IF color = WHITE THEN BLACK ELSE WHITE

-----------------------------------------------------------------------------
(* Python dict operations on the board: a map with its key order *)

\* the keys of a dict in their order, without a key
SeqWithout(s, e) ==
    LET Other(key) == key # e
    IN  SelectSeq(s, Other)

\* piece = board.pop(from); board[to] = piece.  A key that is assigned while
\* present keeps its place in the order, a new key goes to the end.
BoardAfterMove(board, from, to) ==
    LET keep == (DOMAIN board) \ {from}
    IN  [sq \in keep \cup {to} |-> IF sq = to THEN board[from] ELSE board[sq]]

OrderAfterMove(board, order, from, to) ==
    LET popped == SeqWithout(order, from)
    IN  IF to \in (DOMAIN board) \ {from} THEN popped ELSE Append(popped, to)

-----------------------------------------------------------------------------
(* state_manager.py: ChessState *)

back_rank == <<ROOK, KNIGHT, BISHOP, QUEEN, KING, BISHOP, KNIGHT, ROOK>>

\* _setup_initial_position: the board it fills
InitialBoard ==
    [sq \in (0..7) \X {0, 1, 6, 7} |->
        IF sq[2] = 1 THEN ChessPiece(PAWN, WHITE)
        ELSE IF sq[2] = 6 THEN ChessPiece(PAWN, BLACK)
        ELSE IF sq[2] = 0 THEN ChessPiece(back_rank[sq[1] + 1], WHITE)
        ELSE ChessPiece(back_rank[sq[1] + 1], BLACK)]

\* _setup_initial_position: the order in which it inserts the keys, the two
\* pawns of each file first, then the two back-rank pieces of each file
InitialOrder ==
    [i \in 1..32 |->
        IF i <= 16
        THEN <<(i - 1) \div 2, IF i % 2 = 1 THEN 1 ELSE 6>>
        ELSE <<(i - 17) \div 2, IF i % 2 = 1 THEN 0 ELSE 7>>]

\* ChessState.__init__
NewChessState ==
    [board |-> InitialBoard,
     board_order |-> InitialOrder,
     active_color |-> WHITE,
     castling_rights |-> [c \in PieceColor |-> <<TRUE, TRUE>>],
     en_passant_target |-> NoSquare,
     halfmove_clock |-> 0,
     fullmove_number |-> 1,
     move_history |-> <<>>]

get_piece_at(s, x, y) ==
    IF <<x, y>> \in DOMAIN s.board THEN s.board[<<x, y>>] ELSE None

\* is_valid_move: the stub accepts every move
is_valid_move(s, from_x, from_y, to_x, to_y) == TRUE

\* chr(n) for the code points a move of the model can name (the characters
\* before the letter a are written by their code point), and str(n)
Chr(n) ==
    IF n \in 94..107
    THEN <<"chr94", "chr95", "chr96", "a", "b", "c", "d", "e", "f",
           "g", "h", "i", "j", "k">>[n - 93]
    ELSE "?"

Str(n) ==
    IF n \in 0..9
    THEN <<"0", "1", "2", "3", "4", "5", "6", "7", "8", "9">>[n + 1]
    ELSE "?"

\* the four characters chr(97 + from_x), from_y + 1, chr(97 + to_x), to_y + 1:
\* a text is the sequence of its characters
coords_to_algebraic(from_x, from_y, to_x, to_y) ==
    <<Chr(97 + from_x), Str(from_y + 1), Chr(97 + to_x), Str(to_y + 1)>>

\* a move made without the switch of active_color: the piece is moved and
\* the move written to the history, the side to move stays
MoveWithoutSwitch(s, from_x, from_y, to_x, to_y) ==
    IF <<from_x, from_y>> \notin DOMAIN s.board
    THEN [returned |-> FALSE, raised |-> "KeyError", state |-> s]
    ELSE [returned |-> TRUE,
          raised |-> "",
          state |->
            [s EXCEPT
               !.board = BoardAfterMove(s.board, <<from_x, from_y>>, <<to_x, to_y>>),
               !.board_order = OrderAfterMove(s.board, s.board_order,
                                              <<from_x, from_y>>, <<to_x, to_y>>),
               !.move_history =
                   Append(@, coords_to_algebraic(from_x, from_y, to_x, to_y))]]

\* ChessState.make_move: what it returns, what it raises, and the state it
\* leaves.  board.pop raises KeyError on an empty origin before anything is
\* changed.
make_move(s, from_x, from_y, to_x, to_y) ==
    IF ~is_valid_move(s, from_x, from_y, to_x, to_y)
    THEN [returned |-> FALSE, raised |-> "", state |-> s]
    ELSE IF <<from_x, from_y>> \notin DOMAIN s.board
    THEN [returned |-> FALSE, raised |-> "KeyError", state |-> s]
    ELSE
      LET from == <<from_x, from_y>>
          to == <<to_x, to_y>>
          color == Opponent(s.active_color)
      IN  [returned |-> TRUE,
           raised |-> "",
           state |->
             [s EXCEPT
                !.board = BoardAfterMove(s.board, from, to),
                !.board_order = OrderAfterMove(s.board, s.board_order, from, to),
                !.active_color = color,
                !.fullmove_number = IF color = WHITE THEN @ + 1 ELSE @,
                !.move_history =
                    Append(@, coords_to_algebraic(from_x, from_y, to_x, to_y))]]

\* the stubs of ChessState
is_check(s) == FALSE
is_checkmate(s) == FALSE
is_stalemate(s) == FALSE

-----------------------------------------------------------------------------
(* move_generator.py: MoveGenerator *)

\* MoveGenerator.__init__: self.directions
directions(piece_type) ==
    CASE piece_type = PAWN -> <<>>
      [] piece_type = KNIGHT ->
            << <<1, 2>>, <<2, 1>>, <<2, -1>>, <<1, -2>>,
               <<-1, -2>>, <<-2, -1>>, <<-2, 1>>, <<-1, 2>> >>
      [] piece_type = BISHOP -> << <<1, 1>>, <<1, -1>>, <<-1, -1>>, <<-1, 1>> >>
      [] piece_type = ROOK -> << <<1, 0>>, <<0, 1>>, <<-1, 0>>, <<0, -1>> >>
      [] piece_type \in {QUEEN, KING} ->
            << <<1, 0>>, <<0, 1>>, <<-1, 0>>, <<0, -1>>,
               <<1, 1>>, <<1, -1>>, <<-1, -1>>, <<-1, 1>> >>

\* MoveGenerator.__init__: self.max_distance
max_distance(piece_type) ==
    IF piece_type \in {BISHOP, ROOK, QUEEN} THEN 7 ELSE 1

\* 0 <= x < 8 and 0 <= y < 8
OnBoard(x, y) == 0 <= x /\ x < 8 /\ 0 <= y /\ y < 8

\* _copy_state: a fresh ChessState that takes the board, the active colour,
\* the en-passant target and the castling rights of the state copied
_copy_state(s) ==
    [NewChessState EXCEPT
        !.board = s.board,
        !.board_order = s.board_order,
        !.active_color = s.active_color,
        !.en_passant_target = s.en_passant_target,
        !.castling_rights = s.castling_rights]

\* one ray of _is_square_attacked: walk from (x, y) in direction d until the
\* board ends or a piece is met; the piece attacks when it is the opponent's
\* and of one of the two slider types
RECURSIVE RayAttacked(_, _, _, _, _, _, _)
RayAttacked(s, x, y, d, dist, opponent_color, types) ==
    LET attack_x == x + d[1] * dist
        attack_y == y + d[2] * dist
        piece == get_piece_at(s, attack_x, attack_y)
    IN  IF dist >= 8 \/ ~OnBoard(attack_x, attack_y) THEN FALSE
        ELSE IF piece # None
        THEN piece.color = opponent_color /\ piece.piece_type \in types
        ELSE RayAttacked(s, x, y, d, dist + 1, opponent_color, types)

\* the pawn direction _is_square_attacked looks in
AttackPawnDirection(color) == IF color = WHITE THEN -1 ELSE 1

\* the three loops of _is_square_attacked over fixed offsets: a piece of the
\* opponent of the given type on an on-board square at one of the offsets
StepAttacked(s, x, y, offsets, opponent_color, piece_type) ==
    \E i \in DOMAIN offsets :
        LET attack_x == x + offsets[i][1]
            attack_y == y + offsets[i][2]
            piece == get_piece_at(s, attack_x, attack_y)
        IN  /\ OnBoard(attack_x, attack_y)
            /\ piece # None
            /\ piece.color = opponent_color
            /\ piece.piece_type = piece_type

_is_square_attacked(s, x, y, color) ==
    LET opponent_color == Opponent(color)
        pawn_direction == AttackPawnDirection(color)
    IN  \/ StepAttacked(s, x, y, << <<-1, pawn_direction>>, <<1, pawn_direction>> >>,
                        opponent_color, PAWN)
        \/ StepAttacked(s, x, y, directions(KNIGHT), opponent_color, KNIGHT)
        \/ StepAttacked(s, x, y, directions(KING), opponent_color, KING)
        \/ \E i \in DOMAIN directions(BISHOP) :
              RayAttacked(s, x, y, directions(BISHOP)[i], 1, opponent_color,
                          {BISHOP, QUEEN})
        \/ \E i \in DOMAIN directions(ROOK) :
              RayAttacked(s, x, y, directions(ROOK)[i], 1, opponent_color,
                          {ROOK, QUEEN})

\* the first king of the colour in the iteration order of the board, or
\* NoSquare (king_pos of _would_be_in_check_after_move)
FindKing(s, color) ==
    LET at == {i \in DOMAIN s.board_order :
                  s.board[s.board_order[i]] = ChessPiece(KING, color)}
    IN  IF at = {} THEN NoSquare
        ELSE s.board_order[CHOOSE i \in at : \A j \in at : i <= j]

_would_be_in_check_after_move(s, move) ==
    LET copy == _copy_state(s)
        new_state ==
            [copy EXCEPT
                !.board = BoardAfterMove(copy.board, move[1], move[2]),
                !.board_order =
                    OrderAfterMove(copy.board, copy.board_order, move[1], move[2])]
        king_pos == FindKing(new_state, s.active_color)
    IN  IF king_pos = NoSquare THEN FALSE
        ELSE _is_square_attacked(new_state, king_pos[1], king_pos[2], s.active_color)

\* the pawn's direction of _generate_pawn_moves
PawnDirection(color) == IF color = WHITE THEN 1 ELSE -1

\* one capture square of _generate_pawn_moves
PawnCapture(s, x, y, piece, dx) ==
    LET new_x == x + dx
        new_y == y + PawnDirection(piece.color)
        target_piece == get_piece_at(s, new_x, new_y)
    IN  IF ~OnBoard(new_x, new_y) THEN <<>>
        ELSE IF target_piece # None /\ target_piece.color # piece.color
        THEN << <<(<<x, y>>), <<new_x, new_y>> >> >>
        ELSE IF s.en_passant_target = <<new_x, new_y>>
        THEN << <<(<<x, y>>), <<new_x, new_y>> >> >>
        ELSE <<>>

_generate_pawn_moves(s, x, y, piece) ==
    LET direction == PawnDirection(piece.color)
        one == y + direction
        two == y + 2 * direction
        forward ==
            IF 0 <= one /\ one < 8 /\ get_piece_at(s, x, one) = None
            THEN << <<(<<x, y>>), <<x, one>> >> >> \o
                 (IF /\ \/ (y = 1 /\ piece.color = WHITE)
                        \/ (y = 6 /\ piece.color = BLACK)
                     /\ 0 <= two /\ two < 8
                     /\ get_piece_at(s, x, two) = None
                  THEN << <<(<<x, y>>), <<x, two>> >> >>
                  ELSE <<>>)
            ELSE <<>>
    IN  forward \o PawnCapture(s, x, y, piece, -1) \o PawnCapture(s, x, y, piece, 1)

\* _can_castle_kingside without its first loop: the squares between king and
\* rook are not looked at
CastleKingsideOverPieces(s, x, y, color) ==
    \A i \in 0..2 : ~_is_square_attacked(s, x + i, y, color)

_can_castle_kingside(s, x, y, color) ==
    /\ \A i \in 1..2 : get_piece_at(s, x + i, y) = None
    /\ \A i \in 0..2 : ~_is_square_attacked(s, x + i, y, color)

_can_castle_queenside(s, x, y, color) ==
    /\ \A i \in 1..3 : get_piece_at(s, x - i, y) = None
    /\ \A i \in 0..2 : ~_is_square_attacked(s, x - i, y, color)

\* the regular king moves of _generate_king_moves, from direction i onward
RECURSIVE KingSteps(_, _, _, _, _)
KingSteps(s, x, y, piece, i) ==
    IF i > Len(directions(KING)) THEN <<>>
    ELSE
      LET new_x == x + directions(KING)[i][1]
          new_y == y + directions(KING)[i][2]
          target_piece == get_piece_at(s, new_x, new_y)
          here == IF /\ OnBoard(new_x, new_y)
                     /\ (target_piece = None \/ target_piece.color # piece.color)
                  THEN << <<(<<x, y>>), <<new_x, new_y>> >> >>
                  ELSE <<>>
      IN  here \o KingSteps(s, x, y, piece, i + 1)

_generate_king_moves(s, x, y, piece) ==
    LET queenside == s.castling_rights[piece.color][1]
        kingside == s.castling_rights[piece.color][2]
        castling ==
            IF is_check(s) THEN <<>>
            ELSE (IF kingside /\ _can_castle_kingside(s, x, y, piece.color)
                  THEN << <<(<<x, y>>), <<x + 2, y>> >> >> ELSE <<>>) \o
                 (IF queenside /\ _can_castle_queenside(s, x, y, piece.color)
                  THEN << <<(<<x, y>>), <<x - 2, y>> >> >> ELSE <<>>)
    IN  KingSteps(s, x, y, piece, 1) \o castling

\* the inner loop of _generate_piece_moves over the distances of one direction
RECURSIVE RayMoves(_, _, _, _, _, _)
RayMoves(s, x, y, piece, d, dist) ==
    LET new_x == x + d[1] * dist
        new_y == y + d[2] * dist
        target_piece == get_piece_at(s, new_x, new_y)
    IN  IF dist > max_distance(piece.piece_type) \/ ~OnBoard(new_x, new_y)
        THEN <<>>
        ELSE IF target_piece = None
        THEN << <<(<<x, y>>), <<new_x, new_y>> >> >> \o
             RayMoves(s, x, y, piece, d, dist + 1)
        ELSE IF target_piece.color # piece.color
        THEN << <<(<<x, y>>), <<new_x, new_y>> >> >>
        ELSE <<>>

\* the outer loop of _generate_piece_moves over the directions, from i onward
RECURSIVE DirectionMoves(_, _, _, _, _)
DirectionMoves(s, x, y, piece, i) ==
    IF i > Len(directions(piece.piece_type)) THEN <<>>
    ELSE RayMoves(s, x, y, piece, directions(piece.piece_type)[i], 1) \o
         DirectionMoves(s, x, y, piece, i + 1)

\* the moves of _generate_piece_moves before the legality filter
PseudoLegalMoves(s, x, y, piece) ==
    IF piece.piece_type = PAWN THEN _generate_pawn_moves(s, x, y, piece)
    ELSE IF piece.piece_type = KING THEN _generate_king_moves(s, x, y, piece)
    ELSE DirectionMoves(s, x, y, piece, 1)

_generate_piece_moves(s, x, y, piece) ==
    LET Legal(move) == ~_would_be_in_check_after_move(s, move)
    IN  SelectSeq(PseudoLegalMoves(s, x, y, piece), Legal)

\* the loop of generate_moves over the items of the board, from the i-th to
\* the j-th: the moves of the first half of the items, then those of the
\* second half
RECURSIVE MovesFrom(_, _, _)
MovesFrom(s, i, j) ==
    IF i > j THEN <<>>
    ELSE IF i = j
    THEN LET sq == s.board_order[i]
             piece == s.board[sq]
         IN  IF piece.color # s.active_color THEN <<>>
             ELSE _generate_piece_moves(s, sq[1], sq[2], piece)
    ELSE MovesFrom(s, i, (i + j) \div 2) \o MovesFrom(s, ((i + j) \div 2) + 1, j)

generate_moves(s) == MovesFrom(s, 1, Len(s.board_order))

\* the elements of a list
Range(seq) == {seq[i] : i \in DOMAIN seq}

-----------------------------------------------------------------------------
(* evaluation.py: PositionEvaluator *)

\* self.piece_values
piece_values(piece_type) ==
    CASE piece_type = PAWN -> 100
      [] piece_type = KNIGHT -> 320
      [] piece_type = BISHOP -> 330
      [] piece_type = ROOK -> 500
      [] piece_type = QUEEN -> 900
      [] piece_type = KING -> 20000

pawn_table ==
    << <<  0,   0,   0,   0,   0,   0,   0,   0>>,
       << 50,  50,  50,  50,  50,  50,  50,  50>>,
       << 10,  10,  20,  30,  30,  20,  10,  10>>,
       <<  5,   5,  10,  25,  25,  10,   5,   5>>,
       <<  0,   0,   0,  20,  20,   0,   0,   0>>,
       <<  5,  -5, -10,   0,   0, -10,  -5,   5>>,
       <<  5,  10,  10, -20, -20,  10,  10,   5>>,
       <<  0,   0,   0,   0,   0,   0,   0,   0>> >>

knight_table ==
    << <<-50, -40, -30, -30, -30, -30, -40, -50>>,
       <<-40, -20,   0,   0,   0,   0, -20, -40>>,
       <<-30,   0,  10,  15,  15,  10,   0, -30>>,
       <<-30,   5,  15,  20,  20,  15,   5, -30>>,
       <<-30,   0,  15,  20,  20,  15,   0, -30>>,
       <<-30,   5,  10,  15,  15,  10,   5, -30>>,
       <<-40, -20,   0,   5,   5,   0, -20, -40>>,
       <<-50, -40, -30, -30, -30, -30, -40, -50>> >>

bishop_table ==
    << <<-20, -10, -10, -10, -10, -10, -10, -20>>,
       <<-10,   0,   0,   0,   0,   0,   0, -10>>,
       <<-10,   0,  10,  10,  10,  10,   0, -10>>,
       <<-10,   5,   5,  10,  10,   5,   5, -10>>,
       <<-10,   0,   5,  10,  10,   5,   0, -10>>,
       <<-10,   5,   5,   5,   5,   5,   5, -10>>,
       <<-10,   0,   0,   0,   0,   0,   0, -10>>,
       <<-20, -10, -10, -10, -10, -10, -10, -20>> >>

rook_table ==
    << <<  0,   0,   0,   0,   0,   0,   0,   0>>,
       <<  5,  10,  10,  10,  10,  10,  10,   5>>,
       << -5,   0,   0,   0,   0,   0,   0,  -5>>,
       << -5,   0,   0,   0,   0,   0,   0,  -5>>,
       << -5,   0,   0,   0,   0,   0,   0,  -5>>,
       << -5,   0,   0,   0,   0,   0,   0,  -5>>,
       << -5,   0,   0,   0,   0,   0,   0,  -5>>,
       <<  0,   0,   0,   5,   5,   0,   0,   0>> >>

queen_table ==
    << <<-20, -10, -10,  -5,  -5, -10, -10, -20>>,
       <<-10,   0,   0,   0,   0,   0,   0, -10>>,
       <<-10,   0,   5,   5,   5,   5,   0, -10>>,
       << -5,   0,   5,   5,   5,   5,   0,  -5>>,
       <<  0,   0,   5,   5,   5,   5,   0,  -5>>,
       <<-10,   5,   5,   5,   5,   5,   0, -10>>,
       <<-10,   0,   5,   0,   0,   0,   0, -10>>,
       <<-20, -10, -10,  -5,  -5, -10, -10, -20>> >>

king_table_opening ==
    << <<-30, -40, -40, -50, -50, -40, -40, -30>>,
       <<-30, -40, -40, -50, -50, -40, -40, -30>>,
       <<-30, -40, -40, -50, -50, -40, -40, -30>>,
       <<-30, -40, -40, -50, -50, -40, -40, -30>>,
       <<-20, -30, -30, -40, -40, -30, -30, -20>>,
       <<-10, -20, -20, -20, -20, -20, -20, -10>>,
       << 20,  20,   0,   0,   0,   0,  20,  20>>,
       << 20,  30,  10,   0,   0,  10,  30,  20>> >>

king_table_endgame ==
    << <<-50, -40, -30, -20, -20, -30, -40, -50>>,
       <<-30, -20, -10,   0,   0, -10, -20, -30>>,
       <<-30, -10,  20,  30,  30,  20, -10, -30>>,
       <<-30, -10,  30,  40,  40,  30, -10, -30>>,
       <<-30, -10,  30,  40,  40,  30, -10, -30>>,
       <<-30, -10,  20,  30,  30,  20, -10, -30>>,
       <<-30, -30,   0,   0,   0,   0, -30, -30>>,
       <<-50, -30, -30, -30, -30, -30, -30, -50>> >>

\* self.piece_square_tables, as _init_piece_square_tables returns it
piece_square_tables(piece_type) ==
    CASE piece_type = PAWN -> pawn_table
      [] piece_type = KNIGHT -> knight_table
      [] piece_type = BISHOP -> bishop_table
      [] piece_type = ROOK -> rook_table
      [] piece_type = QUEEN -> queen_table
      [] piece_type = KING -> king_table_opening

\* Indexing a Python list of 8 elements: -8..7 are indices, a negative one
\* counts from the end, any other raises IndexError
IndexOk(i) == -8 <= i /\ i <= 7
TableAt(table, y, x) ==
    table[(IF y < 0 THEN y + 8 ELSE y) + 1][(IF x < 0 THEN x + 8 ELSE x) + 1]

\* Scores and phase weights are held as integers: a weight is a multiple of
\* 1/PhaseScale and a score a multiple of 1/PhaseScale centipawn.  Both
\* interpolation denominators of get_game_phase (3000 and 2500) divide
\* 10 * PhaseScale and the material total is a multiple of 10, so the
\* arithmetic is exact.
PhaseScale == 1500

opening_threshold == 7000
middlegame_threshold == 4000
endgame_threshold == 1500

RECURSIVE SumOver(_, _, _)
\* the sum of V[sq] over the squares of a list from the i-th on, the running
\* total of a loop: the sum over the first half of them plus the sum over the
\* second half
SumOver(order, V, i) ==
    IF i > Len(order) THEN 0
    ELSE IF i = Len(order) THEN V[order[i]]
    ELSE SumOver(SubSeq(order, i, (i + Len(order)) \div 2), V, 1)
            + SumOver(order, V, ((i + Len(order)) \div 2) + 1)

\* total_material of get_game_phase
total_material(s) ==
    LET V == [sq \in DOMAIN s.board |->
                 IF s.board[sq].piece_type # KING
                 THEN piece_values(s.board[sq].piece_type) ELSE 0]
    IN  SumOver(s.board_order, V, 1)

get_game_phase(s) ==
    LET tm == total_material(s)
    IN  IF tm > opening_threshold
        THEN [opening |-> PhaseScale, middlegame |-> 0, endgame |-> 0]
        ELSE IF tm > middlegame_threshold
        THEN LET opening_weight ==
                    ((tm - middlegame_threshold) * PhaseScale)
                        \div (opening_threshold - middlegame_threshold)
             IN  [opening |-> opening_weight,
                  middlegame |-> PhaseScale - opening_weight,
                  endgame |-> 0]
        ELSE IF tm > endgame_threshold
        THEN LET middlegame_weight ==
                    ((tm - endgame_threshold) * PhaseScale)
                        \div (middlegame_threshold - endgame_threshold)
             IN  [opening |-> 0,
                  middlegame |-> middlegame_weight,
                  endgame |-> PhaseScale - middlegame_weight]
        ELSE [opening |-> 0, middlegame |-> 0, endgame |-> PhaseScale]

evaluate_material(s) ==
    LET V == [sq \in DOMAIN s.board |->
                 IF s.board[sq].color = WHITE
                 THEN piece_values(s.board[sq].piece_type)
                 ELSE 0 - piece_values(s.board[sq].piece_type)]
    IN  SumOver(s.board_order, V, 1)

\* evaluate_piece_position raises IndexError when a piece stands on a square
\* that is no index of the tables
PositionRaises(s) ==
    \E sq \in DOMAIN s.board : ~IndexOk(sq[1]) \/ ~IndexOk(sq[2])

evaluate_piece_position(s) ==
    LET phase == get_game_phase(s)
        V == [sq \in DOMAIN s.board |->
            LET piece == s.board[sq]
                x == sq[1]
                y == sq[2]
                table_value ==
                    IF piece.piece_type = KING
                    THEN TableAt(king_table_opening, y, x)
                            * (phase.opening + phase.middlegame)
                         + TableAt(king_table_endgame, y, x) * phase.endgame
                    ELSE TableAt(piece_square_tables(piece.piece_type), y, x)
                            * PhaseScale
            IN  IF piece.color = WHITE THEN table_value
                ELSE 0 - TableAt(piece_square_tables(piece.piece_type), 7 - y, x)
                            * PhaseScale]
    IN  SumOver(s.board_order, V, 1)

evaluate_mobility(s) == 0
evaluate_king_safety(s) == 0

\* evaluate: the score in 1/PhaseScale centipawn.  The two weighted terms are
\* products of the placeholder scores, which are 0.
evaluate(s) ==
    LET phase == get_game_phase(s)
        mobility_weight == phase.middlegame + 2 * phase.endgame
        king_safety_weight == 3 * phase.opening + 2 * phase.middlegame
    IN  evaluate_material(s) * PhaseScale
        + evaluate_piece_position(s)
        + (evaluate_mobility(s) * mobility_weight) \div 10
        + (evaluate_king_safety(s) * king_safety_weight) \div 10

-----------------------------------------------------------------------------
(* ai_engine.py: ChessAI *)

\* float('inf') and float('-inf'): beyond every score of the model
PosInf == 2000000000
NegInf == -2000000000

\* Python's None where a move is expected
NoMove == <<>>

Max(a, b) == IF a >= b THEN a ELSE b
Min(a, b) == IF a <= b THEN a ELSE b

\* the depth one above the difficulty, for every value of the difficulty
DepthAboveDifficulty(difficulty) == difficulty + 1

_get_depth_for_difficulty(difficulty) ==
    CASE difficulty = 1 -> 2
      [] difficulty = 2 -> 3
      [] difficulty = 3 -> 4
      [] difficulty = 4 -> 5
      [] difficulty = 5 -> 6
      [] OTHER -> 4

\* ChessAI.__init__
NewChessAI(difficulty) ==
    [difficulty |-> difficulty,
     max_depth |-> _get_depth_for_difficulty(difficulty),
     nodes_searched |-> 0]

set_difficulty(a, difficulty) ==
    [a EXCEPT !.difficulty = difficulty,
              !.max_depth = _get_depth_for_difficulty(difficulty)]

\* _make_move_copy: a copy of every field, and the move made on the copy
_make_move_copy(s, move) ==
    LET new_state ==
            [NewChessState EXCEPT
                !.board = s.board,
                !.board_order = s.board_order,
                !.active_color = s.active_color,
                !.castling_rights = s.castling_rights,
                !.en_passant_target = s.en_passant_target,
                !.halfmove_clock = s.halfmove_clock,
                !.fullmove_number = s.fullmove_number,
                !.move_history = s.move_history]
    IN  make_move(new_state, move[1][1], move[1][2], move[2][1], move[2][2]).state

\* the score _order_moves gives one move whose origin holds a piece
MoveScore(s, move) ==
    LET moving_piece == get_piece_at(s, move[1][1], move[1][2])
        target_piece == get_piece_at(s, move[2][1], move[2][2])
        capture ==
            IF target_piece # None
            THEN piece_values(target_piece.piece_type)
                    - (piece_values(moving_piece.piece_type) \div 10)
            ELSE 0
        table == piece_square_tables(moving_piece.piece_type)
        current_sq_value == TableAt(table, move[1][2], move[1][1])
        new_sq_value == TableAt(table, move[2][2], move[2][1])
    IN  capture + ((new_sq_value - current_sq_value) \div 10)

\* _order_moves raises IndexError on a move of a piece from or to a square
\* that is no index of the tables
OrderRaises(moves, s) ==
    \E i \in DOMAIN moves :
        /\ get_piece_at(s, moves[i][1][1], moves[i][1][2]) # None
        /\ \E k \in 1..2 : ~IndexOk(moves[i][k][1]) \/ ~IndexOk(moves[i][k][2])

\* list.sort(key = score, reverse = True) is stable: the i-th element goes
\* behind every element of a greater score and behind the elements of its own
\* score that stand before it
RankByScore(move_scores, i) ==
    Cardinality({j \in DOMAIN move_scores :
                    \/ move_scores[j][2] > move_scores[i][2]
                    \/ move_scores[j][2] = move_scores[i][2] /\ j < i}) + 1

\* the sorted list: in its k-th place the element of rank k
SortedByRank(move_scores, rank) ==
    [k \in DOMAIN move_scores |->
        move_scores[CHOOSE i \in DOMAIN move_scores : rank[i] = k]]

\* the ranks are handed over as a list, worked out once
SortByScore(move_scores) ==
    SortedByRank(move_scores,
                 <<>> \o [i \in DOMAIN move_scores |-> RankByScore(move_scores, i)])

\* _order_moves, where it does not raise
_order_moves(moves, s) ==
    LET Scored(move) == get_piece_at(s, move[1][1], move[1][2]) # None
        kept == SelectSeq(moves, Scored)
        move_scores == [i \in DOMAIN kept |-> <<kept[i], MoveScore(s, kept[i])>>]
        sorted == SortByScore(move_scores)
    IN  [i \in DOMAIN sorted |-> sorted[i][1]]

\* random.uniform(-5, 5) of the n-th node of a search: the draws of one
\* search are a cycle of values of the interval
NoiseAt(noise, n) == noise[(n % Len(noise)) + 1]

\* _evaluate_position: None as value when the evaluator raises IndexError
_evaluate_position(s, noise_value) ==
    IF PositionRaises(s) THEN [raised |-> TRUE, value |-> 0]
    ELSE [raised |-> FALSE, value |-> evaluate(s) + noise_value * PhaseScale]

\* Cutoff as it would be with the break outside the if: the loop over the
\* moves of a node ends after its first move
CutoffAtOnce(alpha, beta) == TRUE

\* the test that ends the loop over the moves of a node: alpha >= beta for
\* the maximizing player, beta <= alpha for the minimizing one
Cutoff(alpha, beta) == alpha >= beta

\* _alpha_beta.  self.nodes_searched is threaded through as nodes; a result
\* is the value returned, the counter, and whether IndexError was raised
\* instead of a return.  The four operators are the stages of one call: the
\* terminal test, the test for no legal move, the loop over the ordered moves
\* and the body of the loop after the recursive call.
RECURSIVE _alpha_beta(_, _, _, _, _, _, _)
RECURSIVE AlphaBetaMoves(_, _, _, _, _, _, _, _)
RECURSIVE AlphaBetaLoop(_, _, _, _, _, _, _, _, _, _)
RECURSIVE AlphaBetaChild(_, _, _, _, _, _, _, _, _, _)

AlphaBetaLeaf(e, nodes) ==
    [value |-> e.value, nodes |-> nodes, raised |-> e.raised]

_alpha_beta(s, depth, alpha, beta, maximizing_player, nodes, noise) ==
    IF depth = 0 \/ is_checkmate(s) \/ is_stalemate(s)
    THEN AlphaBetaLeaf(_evaluate_position(s, NoiseAt(noise, nodes + 1)), nodes + 1)
    ELSE AlphaBetaMoves(s, generate_moves(s), depth, alpha, beta,
                        maximizing_player, nodes + 1, noise)

AlphaBetaMoves(s, legal_moves, depth, alpha, beta, maximizing_player, nodes, noise) ==
    IF legal_moves = <<>>
    THEN [value |-> IF is_check(s)
                    THEN (IF maximizing_player THEN NegInf ELSE PosInf)
                    ELSE 0,
          nodes |-> nodes, raised |-> FALSE]
    ELSE IF OrderRaises(legal_moves, s)
    THEN [value |-> 0, nodes |-> nodes, raised |-> TRUE]
    ELSE AlphaBetaLoop(s, _order_moves(legal_moves, s), 1, depth, alpha, beta,
                       maximizing_player,
                       IF maximizing_player THEN NegInf ELSE PosInf,
                       nodes, noise)

AlphaBetaLoop(s, ordered_moves, i, depth, alpha, beta, maximizing_player, value, nodes, noise) ==
    IF i > Len(ordered_moves)
    THEN [value |-> value, nodes |-> nodes, raised |-> FALSE]
    ELSE AlphaBetaChild(s, ordered_moves, i, depth, alpha, beta,
                        maximizing_player, value, noise,
                        _alpha_beta(_make_move_copy(s, ordered_moves[i]),
                                    depth - 1, alpha, beta, ~maximizing_player,
                                    nodes, noise))

AlphaBetaChild(s, ordered_moves, i, depth, alpha, beta, maximizing_player, value, noise, child) ==
    LET new_value == IF maximizing_player THEN Max(value, child.value)
                     ELSE Min(value, child.value)
        new_alpha == IF maximizing_player THEN Max(alpha, new_value) ELSE alpha
        new_beta == IF maximizing_player THEN beta ELSE Min(beta, new_value)
    IN  IF child.raised THEN child
        ELSE IF Cutoff(new_alpha, new_beta)
        THEN [value |-> new_value, nodes |-> child.nodes, raised |-> FALSE]
        ELSE AlphaBetaLoop(s, ordered_moves, i + 1, depth, new_alpha, new_beta,
                           maximizing_player, new_value, child.nodes, noise)

\* one iteration of the depth loop of get_best_move: the loop over the
\* ordered root moves, and its body after the call of _alpha_beta
RECURSIVE RootLoop(_, _, _, _, _, _, _, _, _, _)
RECURSIVE RootChild(_, _, _, _, _, _, _, _, _, _)

RootLoop(s, ordered_moves, i, current_depth, alpha, beta, best_value, best_move, nodes, noise) ==
    IF i > Len(ordered_moves)
    THEN [best_value |-> best_value, best_move |-> best_move, nodes |-> nodes,
          raised |-> FALSE]
    ELSE RootChild(s, ordered_moves, i, current_depth, alpha, beta, best_value,
                   best_move, noise,
                   _alpha_beta(_make_move_copy(s, ordered_moves[i]),
                               current_depth - 1, alpha, beta,
                               s.active_color # WHITE, nodes, noise))

RootChild(s, ordered_moves, i, current_depth, alpha, beta, best_value, best_move, noise, child) ==
    LET white == s.active_color = WHITE
        better == IF white THEN child.value > best_value
                  ELSE child.value < best_value
        new_best == IF better THEN child.value ELSE best_value
    IN  IF child.raised
        THEN [best_value |-> best_value, best_move |-> best_move,
              nodes |-> child.nodes, raised |-> TRUE]
        ELSE RootLoop(s, ordered_moves, i + 1, current_depth,
                      IF white THEN Max(alpha, new_best) ELSE alpha,
                      IF white THEN beta ELSE Min(beta, new_best),
                      new_best,
                      IF better THEN ordered_moves[i] ELSE best_move,
                      child.nodes, noise)

\* the depth loop of get_best_move, and its body after the loop over the root
\* moves.  expired is the first depth at whose end the clock shows more than
\* 80% of the time limit.
RECURSIVE DepthLoop(_, _, _, _, _, _, _, _)
RECURSIVE DepthPass(_, _, _, _, _, _, _)

DepthLoop(s, legal_moves, current_depth, max_depth, expired, best_move, nodes, noise) ==
    IF current_depth > max_depth
    THEN [best_value |-> IF s.active_color = WHITE THEN NegInf ELSE PosInf,
          best_move |-> best_move, nodes |-> nodes,
          raised |-> FALSE, depth |-> current_depth - 1]
    ELSE IF OrderRaises(legal_moves, s)
    THEN [best_value |-> IF s.active_color = WHITE THEN NegInf ELSE PosInf,
          best_move |-> best_move, nodes |-> nodes,
          raised |-> TRUE, depth |-> current_depth - 1]
    ELSE DepthPass(s, legal_moves, current_depth, max_depth, expired, noise,
                   RootLoop(s, _order_moves(legal_moves, s), 1, current_depth,
                            NegInf, PosInf,
                            IF s.active_color = WHITE THEN NegInf ELSE PosInf,
                            best_move, nodes, noise))

DepthPass(s, legal_moves, current_depth, max_depth, expired, noise, pass) ==
    IF pass.raised \/ current_depth >= expired \/ current_depth = max_depth
    THEN [best_value |-> pass.best_value, best_move |-> pass.best_move,
          nodes |-> pass.nodes, raised |-> pass.raised,
          depth |-> IF pass.raised THEN current_depth - 1 ELSE current_depth]
    ELSE DepthLoop(s, legal_moves, current_depth + 1, max_depth, expired,
                   pass.best_move, pass.nodes, noise)

\* the end of get_best_move with the replacement drawn at every difficulty
BestMoveReplacedAtAnyLevel(legal_moves, a, draw, found) ==
    LET NotBest(move) == move # found.best_move
        alternative_moves == SelectSeq(legal_moves, NotBest)
        replace == draw.replace /\ alternative_moves # <<>>
    IN  [move |-> IF found.raised THEN NoMove
                  ELSE IF replace
                  THEN alternative_moves[((draw.other - 1)
                                            % Len(alternative_moves)) + 1]
                  ELSE found.best_move,
         raised |-> found.raised,
         nodes_searched |-> found.nodes,
         searched |-> TRUE,
         best_value |-> found.best_value,
         depth |-> found.depth,
         replaced |-> replace /\ ~found.raised,
         found |-> found.best_move]

\* get_best_move after the search: the replacement of the move found
BestMoveFound(legal_moves, a, draw, found) ==
    LET NotBest(move) == move # found.best_move
        alternative_moves == SelectSeq(legal_moves, NotBest)
        replace == /\ a.difficulty <= 2
                   /\ draw.replace
                   /\ alternative_moves # <<>>
    IN  [move |-> IF found.raised THEN NoMove
                  ELSE IF replace
                  THEN alternative_moves[((draw.other - 1)
                                            % Len(alternative_moves)) + 1]
                  ELSE found.best_move,
         raised |-> found.raised,
         nodes_searched |-> found.nodes,
         searched |-> TRUE,
         best_value |-> found.best_value,
         depth |-> found.depth,
         replaced |-> replace /\ ~found.raised,
         found |-> found.best_move]

\* get_best_move that searches whenever there is a move, be it the only one
BestMoveAlwaysSearched(s, a, draw, legal_moves) ==
    IF legal_moves = <<>>
    THEN [move |-> NoMove, raised |-> FALSE, nodes_searched |-> 0,
          searched |-> FALSE, best_value |-> 0, depth |-> 0,
          replaced |-> FALSE, found |-> NoMove]
    ELSE BestMoveFound(legal_moves, a, draw,
                       DepthLoop(s, legal_moves, 1, a.max_depth,
                                 draw.expired, NoMove, 0, draw.noise))

\* get_best_move after generate_moves
BestMoveAmong(s, a, draw, legal_moves) ==
    LET quick(move) ==
            [move |-> move, raised |-> FALSE, nodes_searched |-> 0,
             searched |-> FALSE, best_value |-> 0, depth |-> 0,
             replaced |-> FALSE, found |-> NoMove]
    IN  IF legal_moves = <<>> THEN quick(NoMove)
        ELSE IF Len(legal_moves) = 1 THEN quick(legal_moves[1])
        ELSE IF a.difficulty = 1 /\ draw.skip
        THEN quick(legal_moves[((draw.pick - 1) % Len(legal_moves)) + 1])
        ELSE BestMoveFound(legal_moves, a, draw,
                           DepthLoop(s, legal_moves, 1, a.max_depth,
                                     draw.expired, NoMove, 0, draw.noise))

\* get_best_move.  draw holds what the call takes from outside: the two
\* random.random() comparisons (skip, replace), the two random.choice indices
\* (pick, other), the leaf noise, and the depth at which the clock expires.
\* The result is the move returned (NoMove for None), whether IndexError was
\* raised instead, self.nodes_searched at the end, and from the search the
\* last value of best_value, the last depth completed and the move found.
get_best_move(s, a, draw) == BestMoveAmong(s, a, draw, generate_moves(s))

-----------------------------------------------------------------------------
(* state_manager.py: FEN;  game_controller.py: GameSession *)

\* get_fen returns one literal whatever the position is
get_fen(s) == "rnbqkbnr/pppppppp/8/8/8/8/PPPPPPPP/RNBQKBNR w KQkq - 0 1"

\* set_from_fen has the body pass: the state it is called on stays as it is
set_from_fen(s, fen) == s

\* GameSession.__init__
NewGameSession(user_color, difficulty) ==
    [user_color |-> user_color,
     difficulty |-> difficulty,
     state |-> NewChessState,
     moves_played |-> 0,
     is_active |-> TRUE,
     outcome |-> "None",
     outcome_reason |-> "None",
     move_history |-> <<>>]

to_dict(self) ==
    [user_color |-> self.user_color,
     difficulty |-> self.difficulty,
     moves_played |-> self.moves_played,
     is_active |-> self.is_active,
     outcome |-> self.outcome,
     outcome_reason |-> self.outcome_reason,
     state_fen |-> get_fen(self.state),
     move_history |-> self.move_history]

from_dict(data) ==
    LET created == NewGameSession(IF data.user_color = "w" THEN WHITE ELSE BLACK,
                                  data.difficulty)
    IN  [created EXCEPT
            !.moves_played = data.moves_played,
            !.is_active = data.is_active,
            !.outcome = data.outcome,
            !.outcome_reason = data.outcome_reason,
            !.state = set_from_fen(created.state, data.state_fen),
            !.move_history = data.move_history]

-----------------------------------------------------------------------------
(* state_manager.py: algebraic_to_coords;  game_controller.py: the moves of *)
(* a session                                                                *)

\* ord(c) of the characters a text of the model is written with
Ord(c) ==
    ("a" :> 97 @@ "b" :> 98 @@ "c" :> 99 @@ "d" :> 100 @@ "e" :> 101
       @@ "f" :> 102 @@ "g" :> 103 @@ "h" :> 104 @@ "i" :> 105 @@ "q" :> 113
       @@ "x" :> 120 @@ "E" :> 69 @@ "0" :> 48 @@ "1" :> 49 @@ "2" :> 50
       @@ "3" :> 51 @@ "4" :> 52 @@ "5" :> 53 @@ "6" :> 54 @@ "7" :> 55
       @@ "8" :> 56 @@ "9" :> 57)[c]

\* int(c) of one character: the digit, or ValueError
IsDigit(c) == Ord(c) \in 48..57

\* ChessState.algebraic_to_coords: the four coordinates, or ValueError.  Only
\* the first four characters of the text are looked at.
algebraic_to_coords(algebraic) ==
    IF Len(algebraic) < 4
    THEN [raised |-> "ValueError", value |-> <<>>]
    ELSE IF ~IsDigit(algebraic[2]) \/ ~IsDigit(algebraic[4])
    THEN [raised |-> "ValueError", value |-> <<>>]
    ELSE LET from_file == Ord(algebraic[1]) - Ord("a")
             from_rank == (Ord(algebraic[2]) - 48) - 1
             to_file == Ord(algebraic[3]) - Ord("a")
             to_rank == (Ord(algebraic[4]) - 48) - 1
         IN  IF ~(/\ 0 <= from_file /\ from_file <= 7
                  /\ 0 <= from_rank /\ from_rank <= 7
                  /\ 0 <= to_file /\ to_file <= 7
                  /\ 0 <= to_rank /\ to_rank <= 7)
             THEN [raised |-> "ValueError", value |-> <<>>]
             ELSE [raised |-> "", value |-> <<from_file, from_rank, to_file, to_rank>>]

\* GameSession.record_move (the times of the entry are left out)
record_move(self, move_from, move_to, algebraic, evaluation) ==
    [self EXCEPT
        !.moves_played = @ + 1,
        !.move_history = Append(@,
            [move_number |-> self.moves_played + 1,
             player |-> IF self.state.active_color = self.user_color
                        THEN "user" ELSE "ai",
             from |-> move_from, to |-> move_to,
             algebraic |-> algebraic, evaluation |-> evaluation])]

\* GameSession.end_game
end_game(self, outcome, reason) ==
    [self EXCEPT !.is_active = FALSE, !.outcome = outcome,
                 !.outcome_reason = reason]

\* the name of a colour in an outcome
ColorName(color) == IF color = WHITE THEN "white" ELSE "black"

\* ChessGameController._save_game_session: the dictionary written to the file
\* of the session (active_<id>.json while is_active, completed_<id>.json
\* after)
_save_game_session(self) == <<to_dict(self)>>

\* what an operation of the controller leaves when its response has no
\* outcome: the response (success, game_over), the session, the engine, and
\* the dictionary it wrote last, if it wrote one
Answered(success, self, a, saved) ==
    [success |-> success, session |-> self, ai |-> a, game_over |-> FALSE,
     outcome |-> "None", reason |-> "None", saved |-> saved]

\* what an operation of the controller leaves when its response says
\* game_over: the session is saved after end_game in every such branch
Ended(success, self, a, outcome, reason) ==
    [success |-> success, session |-> self, ai |-> a, game_over |-> TRUE,
     outcome |-> outcome, reason |-> reason, saved |-> _save_game_session(self)]

\* ChessGameController.make_ai_move after record_move: is_checkmate and
\* is_stalemate are asked, and the session is saved
AiMoveRecorded(recorded, a) ==
    IF is_checkmate(recorded.state)
    THEN Ended(TRUE,
               end_game(recorded,
                        ColorName(Opponent(recorded.user_color)) \o "_win",
                        "checkmate"),
               a, ColorName(Opponent(recorded.user_color)) \o "_win", "checkmate")
    ELSE IF is_stalemate(recorded.state)
    THEN Ended(TRUE, end_game(recorded, "draw", "stalemate"), a,
               "draw", "stalemate")
    ELSE Answered(TRUE, recorded, a, _save_game_session(recorded))

\* ChessGameController.make_ai_move after get_best_move has returned a move:
\* the move is made, the position evaluated and the move recorded
AiMoveMade(self, a, best_move, made) ==
    IF made.raised # "" \/ ~made.returned
    THEN Answered(FALSE, self, a, <<>>)
    ELSE IF PositionRaises(made.state)
    THEN Answered(FALSE, [self EXCEPT !.state = made.state], a, <<>>)
    ELSE AiMoveRecorded(
            record_move([self EXCEPT !.state = made.state],
                        best_move[1], best_move[2],
                        coords_to_algebraic(best_move[1][1], best_move[1][2],
                                            best_move[2][1], best_move[2][2]),
                        evaluate(made.state)),
            a)

\* ChessGameController.make_ai_move when get_best_move has returned None: the
\* session is ended and saved, and the response reports what the session holds
AiWithoutMove(ended, a) ==
    Ended(FALSE, ended, a, ended.outcome, ended.outcome_reason)

\* ChessGameController.make_ai_move after get_best_move
AiMoveFound(self, a, found) ==
    IF found.raised
    THEN Answered(FALSE, self, a, <<>>)
    ELSE IF found.move = NoMove
    THEN AiWithoutMove(
            IF is_checkmate(self.state)
            THEN end_game(self, ColorName(self.user_color) \o "_win", "checkmate")
            ELSE IF is_stalemate(self.state)
            THEN end_game(self, "draw", "stalemate")
            ELSE end_game(self, "draw", "no_legal_moves"),
            a)
    ELSE AiMoveMade(self, a, found.move,
                    make_move(self.state, found.move[1][1], found.move[1][2],
                              found.move[2][1], found.move[2][2]))

\* the engine of the controller after the call of get_best_move
AiSearched(self, a, found) ==
    AiMoveFound(self, [a EXCEPT !.nodes_searched = found.nodes_searched], found)

\* ChessGameController.make_ai_move: the answer, the session and the engine
make_ai_move(self, a, draw) ==
    IF ~self.is_active \/ self.state.active_color = self.user_color
    THEN Answered(FALSE, self, a, <<>>)
    ELSE AiSearched(self, set_difficulty(a, self.difficulty),
                    get_best_move(self.state, set_difficulty(a, self.difficulty), draw))

\* ChessGameController.make_move after make_ai_move: the response holds the
\* answer of the engine as ai_response and says success; the session was
\* saved before the engine was asked
UserMoveAnswered(recorded, ai_response) ==
    [ai_response EXCEPT
        !.success = TRUE,
        !.saved = IF @ = <<>> THEN _save_game_session(recorded) ELSE @]

\* ChessGameController.make_move after ChessState.make_move: the move is
\* recorded and the engine answers.  is_checkmate and is_stalemate end the
\* game before the engine is asked.
UserMoveRecorded(recorded, a, draw) ==
    IF is_checkmate(recorded.state)
    THEN Ended(TRUE,
               end_game(recorded, ColorName(recorded.user_color) \o "_win",
                        "checkmate"),
               a, ColorName(recorded.user_color) \o "_win", "checkmate")
    ELSE IF is_stalemate(recorded.state)
    THEN Ended(TRUE, end_game(recorded, "draw", "stalemate"), a,
               "draw", "stalemate")
    ELSE UserMoveAnswered(recorded, make_ai_move(recorded, a, draw))

UserMoveMade(self, a, algebraic_move, coords, made, draw) ==
    IF made.raised # "" \/ ~made.returned
    THEN Answered(FALSE, self, a, <<>>)
    ELSE UserMoveRecorded(
            record_move([self EXCEPT !.state = made.state],
                        <<coords[1], coords[2]>>, <<coords[3], coords[4]>>,
                        algebraic_move, 0),
            a, draw)

\* ChessGameController.make_move after algebraic_to_coords
UserMoveParsed(self, a, algebraic_move, parsed, draw) ==
    IF parsed.raised # ""
    THEN Answered(FALSE, self, a, <<>>)
    ELSE UserMoveMade(self, a, algebraic_move, parsed.value,
                      make_move(self.state, parsed.value[1], parsed.value[2],
                                parsed.value[3], parsed.value[4]),
                      draw)

\* ChessGameController.make_move: the answer, the session and the engine it
\* leaves
controller_make_move(self, a, algebraic_move, draw) ==
    IF ~self.is_active \/ self.state.active_color # self.user_color
    THEN Answered(FALSE, self, a, <<>>)
    ELSE UserMoveParsed(self, a, algebraic_move,
                        algebraic_to_coords(algebraic_move), draw)

\* ChessGameController.resign_game
resign_game(self, a) ==
    IF ~self.is_active
    THEN Answered(FALSE, self, a, <<>>)
    ELSE Ended(TRUE,
               end_game(self, ColorName(Opponent(self.user_color)) \o "_win",
                        ColorName(self.user_color) \o "_resignation"),
               a, ColorName(Opponent(self.user_color)) \o "_win",
               ColorName(self.user_color) \o "_resignation")

\* str.lower of the commands the model sends
lower(command) ==
    CASE command = "RESIGN" -> "resign"
      [] command = "Draw" -> "draw"
      [] OTHER -> command

\* the response of the command status: what the session holds
StatusOf(self, a) ==
    [success |-> TRUE, session |-> self, ai |-> a,
     game_over |-> ~self.is_active, outcome |-> self.outcome,
     reason |-> self.outcome_reason, saved |-> <<>>]

\* ChessGameController.handle_command on the session of an existing game;
\* args is a list of texts
handle_command(self, a, command, args, draw) ==
    CASE lower(command) = "move" ->
            IF Len(args) < 1
            THEN Answered(FALSE, self, a, <<>>)
            ELSE controller_make_move(self, a, args[1], draw)
      [] lower(command) = "resign" -> resign_game(self, a)
      [] lower(command) = "draw" ->
            Ended(TRUE,
                  end_game(self, ColorName(Opponent(self.user_color)) \o "_win",
                           ColorName(self.user_color) \o "_resignation"),
                  a, "draw", "agreement")
      [] lower(command) = "status" -> StatusOf(self, a)
      [] OTHER -> Answered(FALSE, self, a, <<>>)

-----------------------------------------------------------------------------
(* What a call of get_best_move takes from outside *)

\* random.uniform(-5, 5) over the nodes of one search
NoiseDraws == { <<0>>, <<-5, 4, 0>> }

\* what one call of get_best_move draws.  A draw the code does not ask for
\* at the difficulty of the call (skip above difficulty 1, replace above
\* difficulty 2) is handed to it with one clock and without noise.
Draws(a) ==
    { [skip |-> TRUE, pick |-> i, replace |-> FALSE, other |-> 1,
       noise |-> <<0>>, expired |-> 1] :
        i \in IF a.difficulty = 1 THEN 1..MaxChoice ELSE {1} }
    \cup
    { [skip |-> FALSE, pick |-> 1, replace |-> r[1], other |-> r[2],
       noise |-> n, expired |-> e] :
        r \in {<<FALSE, 1>>}
                \cup (IF a.difficulty <= 2 THEN {TRUE} \X (1..MaxChoice) ELSE {}),
        n \in NoiseDraws, e \in 1..MaxSearchDepth }
    \cup
    { [skip |-> FALSE, pick |-> 1, replace |-> TRUE, other |-> i,
       noise |-> <<0>>, expired |-> 1] :
        i \in IF a.difficulty <= 2 THEN {} ELSE 1..MaxChoice }

\* what the engine draws when it answers a move of the user: the clock stops
\* the search after its first pass and the leaves are scored without noise
ReplyDraws(difficulty) ==
    { draw \in Draws(NewChessAI(difficulty)) :
        draw.expired = 1 /\ draw.noise = <<0>> }

\* what a call of get_best_move leaves behind: its result, and what the
\* search reached on the way to it
Call_get_best_move(s, a, draw) ==
    LET r == get_best_move(s, a, draw)
    IN  [op |-> "get_best_move", move |-> r.move, raised |-> r.raised,
         nodes_searched |-> r.nodes_searched, searched |-> r.searched,
         best_value |-> r.best_value, depth |-> r.depth,
         replaced |-> r.replaced, found |-> r.found, noise |-> draw.noise,
         expired |-> draw.expired]

-----------------------------------------------------------------------------
(* bot_runner.py: ChessStateConverter *)

\* chess.SQUARES in order: a1, b1, ..., h1, a2, ..., h8
square_file(square) == square % 8
square_rank(square) == square \div 8

RECURSIVE OccupiedFrom(_, _)
OccupiedFrom(pieces, square) ==
    IF square > 63 THEN <<>>
    ELSE (IF square \in DOMAIN pieces
          THEN << <<square_file(square), square_rank(square)>> >>
          ELSE <<>>) \o OccupiedFrom(pieces, square + 1)

\* python_chess_to_chess_state.  A chess.Board is its piece map (square to
\* piece), turn (TRUE for White), ep_square (-1 for None), the four castling
\* rights and the two counters.
python_chess_to_chess_state(b) ==
    [NewChessState EXCEPT
        !.board = [sq \in {<<square_file(q), square_rank(q)>> : q \in DOMAIN b.pieces}
                      |-> b.pieces[sq[2] * 8 + sq[1]]],
        !.board_order = OccupiedFrom(b.pieces, 0),
        !.active_color = IF b.turn THEN WHITE ELSE BLACK,
        !.en_passant_target =
            IF b.ep_square # -1
            THEN <<square_file(b.ep_square), square_rank(b.ep_square)>>
            ELSE NoSquare,
        !.castling_rights = b.castling_rights,
        !.halfmove_clock = b.halfmove_clock,
        !.fullmove_number = b.fullmove_number]

-----------------------------------------------------------------------------
(* The game played from the starting position *)

\* the moves the two players choose among, as ((from_x, from_y), (to_x, to_y))
Repertoire ==
    { << <<5, 1>>, <<5, 3>> >>,   \* f2f4
      << <<4, 0>>, <<5, 1>> >>,   \* e1f2
      << <<5, 1>>, <<6, 2>> >>,   \* f2g3
      << <<5, 3>>, <<5, 4>> >>,   \* f4f5
      << <<6, 2>>, <<8, 2>> >>,   \* the king from g3 two files to the right
      << <<7, 6>>, <<7, 4>> >>,   \* h7h5
      << <<7, 4>>, <<7, 3>> >>,   \* h5h4
      << <<7, 3>>, <<6, 2>> >>,   \* h4g3
      << <<6, 6>>, <<6, 4>> >>,   \* g7g5
      << <<0, 6>>, <<0, 5>> >> }  \* a7a6

Init ==
    /\ state = NewChessState
    /\ ai = NewChessAI(3)
    /\ ret = [op |-> "init"]
    /\ session = NewGameSession(WHITE, 3)
    /\ threads = <<>>

\* a move of generate_moves is applied with ChessState.make_move
PlayMove ==
    /\ Len(state.move_history) < MaxPly
    /\ \E move \in Range(generate_moves(state)) \cap Repertoire :
          LET r == make_move(state, move[1][1], move[1][2], move[2][1], move[2][2])
          IN  /\ state' = r.state
              /\ ret' = [op |-> "make_move", move |-> move,
                         piece |-> get_piece_at(state, move[1][1], move[1][2]),
                         returned |-> r.returned, raised |-> r.raised]
    /\ UNCHANGED <<ai, session, threads>>

\* MoveGenerator.generate_moves is called on the position
GenerateMoves ==
    /\ ret' = [op |-> "generate_moves", value |-> generate_moves(state)]
    /\ UNCHANGED <<state, ai, session, threads>>

\* the session of the game is saved (_save_game_session writes to_dict) and
\* loaded again (_load_game_session reads it with from_dict)
Reload ==
    LET current == [NewGameSession(WHITE, ai.difficulty) EXCEPT !.state = state]
        loaded == from_dict(to_dict(current))
    IN  /\ state' = loaded.state
        /\ ret' = [op |-> "from_dict", saved |-> state]
        /\ UNCHANGED <<ai, session, threads>>

\* ChessAI.get_best_move is called on the position of the game, at its start
\* or after a move, with a clock that stops the search after its first pass
QuickBestMove ==
    /\ Len(state.move_history) < MaxSearchedPly
    /\ ret.op \in {"init", "make_move"}
    /\ \E draw \in ReplyDraws(ai.difficulty) :
          ret' = Call_get_best_move(state, ai, draw)
    /\ ai' = [ai EXCEPT !.nodes_searched = ret'.nodes_searched]
    /\ UNCHANGED <<state, session, threads>>

Next == PlayMove \/ GenerateMoves \/ Reload \/ QuickBestMove

Spec == Init /\ [][Next]_vars

-----------------------------------------------------------------------------
(* Moves submitted to ChessState.make_move, generated or not *)

\* well-formed moves a user submits
Submitted ==
    { << <<4, 1>>, <<4, 3>> >>,   \* e2e4
      << <<4, 6>>, <<4, 4>> >>,   \* e7e5
      << <<4, 1>>, <<4, 4>> >>,   \* e2e5, a pawn three squares forward
      << <<0, 0>>, <<0, 4>> >>,   \* a1a5, a rook through its own pawn
      << <<4, 4>>, <<4, 5>> >> }  \* e5e6

\* ChessState.make_move is called with the coordinates of a submitted move.
\* ChessGameController.make_move answers success false when the call returns
\* False and when it raises.
MakeMove ==
    /\ Len(state.move_history) < MaxSubmitted
    /\ \E move \in Submitted :
          LET r == make_move(state, move[1][1], move[1][2], move[2][1], move[2][2])
          IN  /\ state' = r.state
              /\ ret' = [op |-> "submit", move |-> move, before |-> state,
                         generated |-> move \in Range(generate_moves(state)),
                         success |-> r.returned /\ r.raised = ""]
    /\ UNCHANGED <<ai, session, threads>>

NextUser == MakeMove

SpecUser == Init /\ [][NextUser]_vars

-----------------------------------------------------------------------------
(* The engine and the position queries, called on positions *)

\* a chess.Board without castling rights and en-passant square
PyBoard(pieces, turn) ==
    [pieces |-> pieces, turn |-> turn, ep_square |-> -1,
     castling_rights |-> [c \in PieceColor |-> <<FALSE, FALSE>>],
     halfmove_clock |-> 0, fullmove_number |-> 1]

\* Black king h8, White king f7, White queen g6, Black to move
StalemateBoard ==
    PyBoard(46 :> ChessPiece(QUEEN, WHITE) @@ 53 :> ChessPiece(KING, WHITE)
              @@ 63 :> ChessPiece(KING, BLACK), FALSE)

\* White king g1 behind the pawns f2, g2, h2, Black rook e1, White to move
BackRankBoard ==
    PyBoard(4 :> ChessPiece(ROOK, BLACK) @@ 6 :> ChessPiece(KING, WHITE)
              @@ 13 :> ChessPiece(PAWN, WHITE) @@ 14 :> ChessPiece(PAWN, WHITE)
              @@ 15 :> ChessPiece(PAWN, WHITE) @@ 62 :> ChessPiece(KING, BLACK), TRUE)

\* Black king h8 behind g7, h7 and the rook g8, White knight f7, Black to move
SmotheredBoard ==
    PyBoard(0 :> ChessPiece(KING, WHITE) @@ 53 :> ChessPiece(KNIGHT, WHITE)
              @@ 54 :> ChessPiece(PAWN, BLACK) @@ 55 :> ChessPiece(PAWN, BLACK)
              @@ 62 :> ChessPiece(ROOK, BLACK) @@ 63 :> ChessPiece(KING, BLACK), FALSE)

\* king and pawn against king, either side to move
PawnEndingBoard(turn) ==
    PyBoard(4 :> ChessPiece(KING, WHITE) @@ 12 :> ChessPiece(PAWN, WHITE)
              @@ 60 :> ChessPiece(KING, BLACK), turn)

\* rook against knight with captures at hand, either side to move
RookKnightBoard(turn) ==
    PyBoard(9 :> ChessPiece(KING, WHITE) @@ 27 :> ChessPiece(ROOK, WHITE)
              @@ 37 :> ChessPiece(KNIGHT, BLACK) @@ 43 :> ChessPiece(PAWN, BLACK)
              @@ 54 :> ChessPiece(KING, BLACK), turn)

\* the position of a ChessState() game after the moves of a line
RECURSIVE Played(_, _)
Played(s, line) ==
    IF line = <<>> THEN s
    ELSE Played(make_move(s, line[1][1][1], line[1][1][2],
                          line[1][2][1], line[1][2][2]).state, Tail(line))

\* White pawn e7 before its last rank, White to move
PromotionBoard ==
    PyBoard(0 :> ChessPiece(KING, WHITE) @@ 52 :> ChessPiece(PAWN, WHITE)
              @@ 39 :> ChessPiece(KING, BLACK), TRUE)

\* Black pawn b2 before its last rank, Black to move
UnderPromotionBoard ==
    PyBoard(6 :> ChessPiece(KING, WHITE) @@ 9 :> ChessPiece(PAWN, BLACK)
              @@ 60 :> ChessPiece(KING, BLACK), FALSE)

\* Black king a8 with the one move a7: White rook b1, White king c6
OnlyMoveBoard ==
    PyBoard(1 :> ChessPiece(ROOK, WHITE) @@ 42 :> ChessPiece(KING, WHITE)
              @@ 56 :> ChessPiece(KING, BLACK), FALSE)

\* 1. f4 h5 2. Kf2 h4 3. Kg3 a6
KingWalk ==
    << << <<5, 1>>, <<5, 3>> >>, << <<7, 6>>, <<7, 4>> >>,
       << <<4, 0>>, <<5, 1>> >>, << <<7, 4>>, <<7, 3>> >>,
       << <<5, 1>>, <<6, 2>> >>, << <<0, 6>>, <<0, 5>> >> >>

\* positions handed to the engine: by the converter from a Lichess game, and
\* by the controller from a game of its own
Positions ==
    { python_chess_to_chess_state(b) :
        b \in {StalemateBoard, BackRankBoard, SmotheredBoard,
               PawnEndingBoard(TRUE), PawnEndingBoard(FALSE),
               RookKnightBoard(TRUE), RookKnightBoard(FALSE),
               PromotionBoard, UnderPromotionBoard, OnlyMoveBoard} }
    \cup { Played(NewChessState, KingWalk) }

InitPos ==
    /\ state \in Positions
    /\ ai \in {NewChessAI(difficulty) : difficulty \in 1..5}
    /\ ret = [op |-> "init"]
    /\ session = NewGameSession(WHITE, 3)
    /\ threads = <<>>

\* ChessAI.get_best_move is called on the position
GetBestMove ==
    /\ \E draw \in Draws(ai) : ret' = Call_get_best_move(state, ai, draw)
    /\ ai' = [ai EXCEPT !.nodes_searched = ret'.nodes_searched]
    /\ UNCHANGED <<state, session, threads>>

IsCheck ==
    /\ ret' = [op |-> "is_check", value |-> is_check(state)]
    /\ UNCHANGED <<state, ai, session, threads>>

IsCheckmate ==
    /\ ret' = [op |-> "is_checkmate", value |-> is_checkmate(state)]
    /\ UNCHANGED <<state, ai, session, threads>>

IsStalemate ==
    /\ ret' = [op |-> "is_stalemate", value |-> is_stalemate(state)]
    /\ UNCHANGED <<state, ai, session, threads>>

\* ChessState.make_move is called with a move of generate_moves
ApplyMove ==
    /\ \E move \in Range(generate_moves(state)) :
          LET r == make_move(state, move[1][1], move[1][2], move[2][1], move[2][2])
          IN  /\ state' = r.state
              /\ ret' = [op |-> "make_move", move |-> move,
                         piece |-> get_piece_at(state, move[1][1], move[1][2]),
                         returned |-> r.returned, raised |-> r.raised]
    /\ UNCHANGED <<ai, session, threads>>

\* difficulties handed to ChessAI: the five levels and values outside them
Difficulties == 0..MaxDifficulty

\* ChessAI.set_difficulty is called
SetDifficulty ==
    /\ \E difficulty \in Difficulties :
          /\ ai' = set_difficulty(ai, difficulty)
          /\ ret' = [op |-> "set_difficulty", difficulty |-> difficulty]
    /\ UNCHANGED <<state, session, threads>>

\* what a call of _alpha_beta on the position leaves behind, with the window
\* and the maximizing flag get_best_move would call it with and no noise
Call_alpha_beta(s, depth) ==
    LET r == _alpha_beta(s, depth, NegInf, PosInf, s.active_color = WHITE, 0, <<0>>)
    IN  [op |-> "_alpha_beta", depth |-> depth, value |-> r.value,
         raised |-> r.raised, nodes |-> r.nodes]

\* ChessAI._alpha_beta is called on the position
AlphaBeta ==
    /\ \E depth \in 1..MaxSearchDepth : ret' = Call_alpha_beta(state, depth)
    /\ ai' = [ai EXCEPT !.nodes_searched = @ + ret'.nodes]
    /\ UNCHANGED <<state, session, threads>>

\* what a call of evaluate_piece_position leaves behind: the score, or
\* IndexError
Call_evaluate_piece_position(s) ==
    IF PositionRaises(s)
    THEN [op |-> "evaluate_piece_position", raised |-> TRUE, value |-> 0]
    ELSE [op |-> "evaluate_piece_position", raised |-> FALSE,
          value |-> evaluate_piece_position(s)]

\* PositionEvaluator.evaluate_piece_position is called on the position
EvaluatePiecePosition ==
    /\ ret' = Call_evaluate_piece_position(state)
    /\ UNCHANGED <<state, ai, session, threads>>

\* one call on each position: no call changes the position, and
\* get_best_move starts by resetting the one field it writes
Fresh == ret.op = "init"

NextPos ==
    \/ Fresh /\ GenerateMoves
    \/ Fresh /\ GetBestMove
    \/ Fresh /\ IsCheck
    \/ Fresh /\ IsCheckmate
    \/ Fresh /\ IsStalemate
    \/ Fresh /\ ApplyMove
    \/ Fresh /\ AlphaBeta
    \/ Fresh /\ EvaluatePiecePosition
    \/ SetDifficulty

SpecPos == InitPos /\ [][NextPos]_vars

-----------------------------------------------------------------------------
(* Move texts sent to ChessGameController.make_move *)

\* the texts a user sends: moves of four characters, with a promotion letter,
\* with characters after the move, too short, and with files and ranks that
\* are not on the board
Texts ==
    { <<"e", "2", "e", "4">>, <<"g", "1", "f", "3">>, <<"e", "7", "e", "8", "q">>,
      <<"e", "2", "e", "4", "x">>, <<"e", "2", "e", "4", "q", "q">>,
      <<>>, <<"e", "2">>, <<"e", "2", "e">>,
      <<"i", "2", "e", "4">>, <<"e", "2", "i", "4">>, <<"E", "2", "e", "4">>,
      <<"e", "9", "e", "4">>, <<"e", "2", "e", "0">>, <<"e", "2", "e", "x">>,
      <<"e", "x", "e", "4">>, <<"e", "4", "e", "5">>,
      <<"e", "7", "e", "5">>, <<"e", "7", "e", "5", "x">> }

\* ChessGameController.create_game: the session, and the engine after the
\* first move when the engine plays White
create_game(a, user_color, difficulty, draw) ==
    IF user_color = BLACK
    THEN make_ai_move(NewGameSession(user_color, difficulty), a, draw)
    ELSE Answered(TRUE, NewGameSession(user_color, difficulty), a,
                  _save_game_session(NewGameSession(user_color, difficulty)))

\* the games ChessGameController.create_game starts
Created ==
    { create_game(NewChessAI(3), user_color, difficulty, draw) :
        user_color \in PieceColor,
        difficulty \in 1..5,
        draw \in UNION {ReplyDraws(d) : d \in 1..5} }

InitText ==
    /\ state = NewChessState
    /\ ret = [op |-> "init"]
    /\ \E game \in Created : session = game.session /\ ai = game.ai
    /\ threads = <<>>

\* what a call of ChessGameController.make_move leaves behind
Call_controller_make_move(self, a, algebraic_move, draw) ==
    LET r == controller_make_move(self, a, algebraic_move, draw)
    IN  [op |-> "controller_make_move", text |-> algebraic_move,
         before |-> self, success |-> r.success,
         session |-> r.session, ai |-> r.ai]

\* ChessGameController.make_move is called with a text, on a new session
ControllerMakeMove ==
    /\ Fresh
    /\ \E algebraic_move \in Texts, draw \in ReplyDraws(session.difficulty) :
          ret' = Call_controller_make_move(session, ai, algebraic_move, draw)
    /\ session' = ret'.session
    /\ ai' = ret'.ai
    /\ UNCHANGED <<state, threads>>

NextText == ControllerMakeMove

SpecText == InitText /\ [][NextText]_vars

-----------------------------------------------------------------------------
(* bot_runner.py: the game threads of LichessBotRunner, which call the one  *)
(* ChessAI of the runner (self.ai_engine)                                   *)

\* the game threads started by _on_game_start
GameThreads == 1..MaxThreads

\* the positions of the games the threads play
ThreadPositions ==
    { python_chess_to_chess_state(b) :
        b \in {PawnEndingBoard(TRUE), PawnEndingBoard(FALSE), PromotionBoard} }

\* a game thread before _make_ai_move: the position it has converted
NewThread(chess_state) ==
    [pc |-> "idle", chess_state |-> chess_state, alone |-> NoMove,
     left |-> 0, loaded |-> 0, move |-> NoMove, nodes_searched |-> 0]

InitThreads ==
    /\ state = NewChessState
    /\ ai = NewChessAI(3)
    /\ ret = [op |-> "init"]
    /\ session = NewGameSession(WHITE, 3)
    /\ threads \in [GameThreads -> {NewThread(s) : s \in ThreadPositions}]

\* the call of get_best_move as it runs with no other thread: its move and
\* the nodes it visits
Alone(chess_state, a) ==
    LET r == get_best_move(chess_state, a,
                           CHOOSE draw \in ReplyDraws(a.difficulty) : TRUE)
    IN  [move |-> r.move, nodes_searched |-> r.nodes_searched]

\* thread t enters get_best_move: self.nodes_searched = 0.  The nodes the
\* call is going to visit do not depend on the counter.
ThreadStart(t) ==
    /\ threads[t].pc = "idle"
    /\ ai' = [ai EXCEPT !.nodes_searched = 0]
    /\ threads' = [threads EXCEPT
                      ![t].pc = "searching",
                      ![t].alone = Alone(threads[t].chess_state, ai),
                      ![t].left = Alone(threads[t].chess_state, ai).nodes_searched]
    /\ UNCHANGED <<state, ret, session>>

\* thread t enters _alpha_beta: self.nodes_searched += 1 reads the counter
ThreadLoad(t) ==
    /\ threads[t].pc = "searching"
    /\ threads[t].left > 0
    /\ threads' = [threads EXCEPT ![t].pc = "loaded",
                                  ![t].loaded = ai.nodes_searched]
    /\ UNCHANGED <<state, ai, ret, session>>

\* ... and writes the sum back
ThreadStore(t) ==
    /\ threads[t].pc = "loaded"
    /\ ai' = [ai EXCEPT !.nodes_searched = threads[t].loaded + 1]
    /\ threads' = [threads EXCEPT ![t].pc = "searching", ![t].left = @ - 1]
    /\ UNCHANGED <<state, ret, session>>

\* get_best_move returns to thread t, which reads the statistics of its call
ThreadReturn(t) ==
    /\ threads[t].pc = "searching"
    /\ threads[t].left = 0
    /\ threads' = [threads EXCEPT ![t].pc = "done",
                                  ![t].move = threads[t].alone.move,
                                  ![t].nodes_searched = ai.nodes_searched]
    /\ UNCHANGED <<state, ai, ret, session>>

NextThreads ==
    \E t \in GameThreads :
        \/ ThreadStart(t)
        \/ ThreadLoad(t)
        \/ ThreadStore(t)
        \/ ThreadReturn(t)

SpecThreads == InitThreads /\ [][NextThreads]_vars

-----------------------------------------------------------------------------
(* The rules of chess the properties are stated with *)

Abs(n) == IF n < 0 THEN 0 - n ELSE n
Sign(n) == IF n < 0 THEN -1 ELSE IF n > 0 THEN 1 ELSE 0

\* no piece stands strictly between two squares of one line
PathClear(board, from, to) ==
    LET dx == to[1] - from[1]
        dy == to[2] - from[2]
        n == IF Abs(dx) > Abs(dy) THEN Abs(dx) ELSE Abs(dy)
    IN  \A k \in 1..(n - 1) :
            <<from[1] + k * Sign(dx), from[2] + k * Sign(dy)>> \notin DOMAIN board

\* the piece on from attacks the square to: a pawn one step diagonally
\* forward, a knight, a king, or a bishop, rook or queen along a clear ray
PieceAttacks(board, from, to) ==
    LET piece == board[from]
        dx == to[1] - from[1]
        dy == to[2] - from[2]
        straight == (dx = 0 \/ dy = 0) /\ from # to /\ PathClear(board, from, to)
        diagonal == Abs(dx) = Abs(dy) /\ from # to /\ PathClear(board, from, to)
    IN  CASE piece.piece_type = PAWN ->
                Abs(dx) = 1 /\ dy = (IF piece.color = WHITE THEN 1 ELSE -1)
          [] piece.piece_type = KNIGHT -> {Abs(dx), Abs(dy)} = {1, 2}
          [] piece.piece_type = KING ->
                Abs(dx) <= 1 /\ Abs(dy) <= 1 /\ from # to
          [] piece.piece_type = ROOK -> straight
          [] piece.piece_type = BISHOP -> diagonal
          [] piece.piece_type = QUEEN -> straight \/ diagonal

AttackedBy(board, sq, color) ==
    \E from \in DOMAIN board :
        board[from].color = color /\ PieceAttacks(board, from, sq)

KingSquares(board, color) ==
    {sq \in DOMAIN board : board[sq] = ChessPiece(KING, color)}

InCheck(board, color) ==
    \E sq \in KingSquares(board, color) : AttackedBy(board, sq, Opponent(color))

Squares == (0..7) \X (0..7)

\* a piece is moved from one square to another, taking what stands there
MovedTo(board, from, to) ==
    [sq \in ((DOMAIN board) \ {from}) \cup {to} |->
        IF sq = to THEN board[from] ELSE board[sq]]

\* the piece on from may go to the square to, the safety of its king aside.
\* Castling is left out: where it is legal, so is a step of the king.  The
\* en-passant capture is left out: it needs an en-passant square.
MayMove(board, from, to) ==
    LET piece == board[from]
        forward == IF piece.color = WHITE THEN 1 ELSE -1
        home == IF piece.color = WHITE THEN 1 ELSE 6
    IN  /\ to \in Squares
        /\ to \in DOMAIN board => board[to].color # piece.color
        /\ IF piece.piece_type # PAWN THEN PieceAttacks(board, from, to)
           ELSE \/ to \in DOMAIN board /\ PieceAttacks(board, from, to)
                \/ /\ to \notin DOMAIN board
                   /\ to[1] = from[1]
                   /\ \/ to[2] = from[2] + forward
                      \/ /\ from[2] = home
                         /\ to[2] = from[2] + 2 * forward
                         /\ <<from[1], from[2] + forward>> \notin DOMAIN board

\* the side to move has a move after which its king is not attacked
HasLegalMove(s) ==
    \E from \in DOMAIN s.board, to \in Squares :
        /\ s.board[from].color = s.active_color
        /\ MayMove(s.board, from, to)
        /\ ~InCheck(MovedTo(s.board, from, to), s.active_color)

\* the full-width minimax value of a position at a depth, with the terminal
\* rules of _alpha_beta, over the set of the generated moves
RECURSIVE Minimax(_, _, _)
Minimax(s, depth, maximizing_player) ==
    IF depth = 0 \/ is_checkmate(s) \/ is_stalemate(s)
    THEN [raised |-> PositionRaises(s),
          value |-> IF PositionRaises(s) THEN 0 ELSE evaluate(s)]
    ELSE
      LET legal_moves == generate_moves(s)
          moves == Range(legal_moves)
          below == {Minimax(_make_move_copy(s, move), depth - 1,
                            ~maximizing_player) : move \in moves}
          values == {b.value : b \in below}
      IN  IF moves = {}
          THEN [raised |-> FALSE,
                value |-> IF is_check(s)
                          THEN (IF maximizing_player THEN NegInf ELSE PosInf)
                          ELSE 0]
          ELSE IF OrderRaises(legal_moves, s) \/ (\E b \in below : b.raised)
          THEN [raised |-> TRUE, value |-> 0]
          ELSE [raised |-> FALSE,
                value |-> IF maximizing_player
                          THEN CHOOSE v \in values : \A w \in values : v >= w
                          ELSE CHOOSE v \in values : \A w \in values : v <= w]

\* the nodes a search without cutoffs visits below the root of a pass
RECURSIVE FullWidthNodes(_, _)
FullWidthNodes(s, depth) ==
    IF depth = 0 THEN 0
    ELSE LET moves == generate_moves(s)
             Below(i) == 1 + FullWidthNodes(_make_move_copy(s, moves[i]), depth - 1)
             Sum[i \in 0..Len(moves)] == IF i = 0 THEN 0 ELSE Sum[i - 1] + Below(i)
         IN  Sum[Len(moves)]

-----------------------------------------------------------------------------
(* Properties *)

\* the position after a move is applied with ChessState.make_move
AfterMove(s, move) ==
    make_move(s, move[1][1], move[1][2], move[2][1], move[2][2]).state

\* C1: in every position of the game, no move of generate_moves leaves the
\* king of the side that moves attacked by an opposing piece once the move
\* is applied.
C1_NoMoveLeavesKingAttacked ==
    ret.op = "generate_moves" =>
        \A i \in DOMAIN ret.value :
            ~InCheck(AfterMove(state, ret.value[i]).board, state.active_color)

\* C2: a well-formed move that generate_moves does not hold is rejected
\* (success false), and the board, the side to move, the two counters and
\* the move history stay as they were.
C2_IllegalMoveRejected ==
    (ret.op = "submit" /\ ~ret.generated) =>
        /\ ~ret.success
        /\ state.board = ret.before.board
        /\ state.active_color = ret.before.active_color
        /\ state.halfmove_clock = ret.before.halfmove_clock
        /\ state.fullmove_number = ret.before.fullmove_number
        /\ state.move_history = ret.before.move_history

\* C3: get_best_move returns a move of generate_moves whenever there is one,
\* whatever the difficulty, the clock and the random draws, and None only
\* when there is none.
C3_BestMoveIsGenerated ==
    ret.op = "get_best_move" =>
        /\ ~ret.raised
        /\ IF generate_moves(state) # <<>>
           THEN ret.move \in Range(generate_moves(state))
           ELSE ret.move = NoMove

\* a search of get_best_move that ran to its end with the leaf noise at 0
NoiselessSearch ==
    /\ ret.op = "get_best_move"
    /\ ret.searched
    /\ ~ret.raised
    /\ ret.noise = <<0>>

\* C4: without leaf noise, the value the root loop holds for the move it
\* selected at the last depth d is the full-width minimax value of the
\* position at depth d, and the selected move is one that attains it.
C4_RootValueIsMinimax ==
    NoiselessSearch =>
        LET white == state.active_color = WHITE
            root == Minimax(state, ret.depth, white)
            selected == Minimax(_make_move_copy(state, ret.found),
                                ret.depth - 1, ~white)
        IN  ~root.raised =>
                /\ ret.best_value = root.value
                /\ selected.value = root.value

\* C4, witness: a search to the deepest depth that cut branches off, having
\* visited fewer nodes than the full-width passes together
C4_PrunedSearch ==
    /\ NoiselessSearch
    /\ ret.depth = MaxSearchDepth
    /\ ~Minimax(state, ret.depth, state.active_color = WHITE).raised
    /\ LET Passes[d \in 0..ret.depth] ==
               IF d = 0 THEN 0 ELSE Passes[d - 1] + FullWidthNodes(state, d)
       IN  ai.nodes_searched < Passes[ret.depth]

\* the side to move has no legal move and its king is not attacked
Stalemated(s) == ~HasLegalMove(s) /\ ~InCheck(s.board, s.active_color)

\* the side to move has no legal move and its king is attacked
Checkmated(s) == ~HasLegalMove(s) /\ InCheck(s.board, s.active_color)

\* C5: in a position where the side to move has no legal move and its king
\* is not attacked, generate_moves returns the empty list, is_stalemate
\* returns True and is_checkmate returns False.
C5_StalemateRecognised ==
    Stalemated(state) =>
        /\ ret.op = "generate_moves" => ret.value = <<>>
        /\ ret.op = "is_stalemate" => ret.value = TRUE
        /\ ret.op = "is_checkmate" => ret.value = FALSE

\* C6: in a position where the side to move has no legal move and its king
\* is attacked, generate_moves returns the empty list, is_check returns True
\* and is_checkmate returns True.
C6_CheckmateRecognised ==
    Checkmated(state) =>
        /\ ret.op = "generate_moves" => ret.value = <<>>
        /\ ret.op = "is_check" => ret.value = TRUE
        /\ ret.op = "is_checkmate" => ret.value = TRUE

\* the move just made was the two-square advance of a pawn
DoublePush ==
    /\ ret.op = "make_move"
    /\ ret.piece.piece_type = PAWN
    /\ Abs(ret.move[2][2] - ret.move[1][2]) = 2

\* the square the pawn of the move just made passed over
Skipped == <<ret.move[1][1], (ret.move[1][2] + ret.move[2][2]) \div 2>>

\* C7: on the ply after the two-square advance of a pawn, en_passant_target
\* is the square passed over and generate_moves offers every enemy pawn
\* beside the advanced pawn the capture onto it; after any other move
\* en_passant_target is None.
C7_EnPassantAfterDoublePush ==
    ret.op = "make_move" =>
        IF DoublePush
        THEN /\ state.en_passant_target = Skipped
             /\ \A dx \in {-1, 1} :
                    LET beside == <<ret.move[2][1] + dx, ret.move[2][2]>>
                    IN  get_piece_at(state, beside[1], beside[2])
                            = ChessPiece(PAWN, state.active_color)
                        => <<beside, Skipped>> \in Range(generate_moves(state))
        ELSE state.en_passant_target = NoSquare

\* a move of the king two files along its rank
IsCastling(s, move) ==
    /\ get_piece_at(s, move[1][1], move[1][2]) = ChessPiece(KING, s.active_color)
    /\ move[2][2] = move[1][2]
    /\ Abs(move[2][1] - move[1][1]) = 2

\* C8: generate_moves holds no castling move when the square of the king,
\* the square it passes over or the square it goes to is attacked by an
\* opposing piece.
C8_NoCastlingThroughAttack ==
    ret.op = "generate_moves" =>
        \A i \in DOMAIN ret.value :
            LET move == ret.value[i]
                over == <<(move[1][1] + move[2][1]) \div 2, move[1][2]>>
            IN  IsCastling(state, move) =>
                    \A sq \in {move[1], over, move[2]} :
                        ~AttackedBy(state.board, sq, Opponent(state.active_color))

\* the 16 pawn pushes and the 4 knight moves of the initial position
OpeningMoves ==
    { << <<x, 1>>, <<x, y>> >> : x \in 0..7, y \in {2, 3} }
    \cup { << <<1, 0>>, <<0, 2>> >>, << <<1, 0>>, <<2, 2>> >>,
           << <<6, 0>>, <<5, 2>> >>, << <<6, 0>>, <<7, 2>> >> }

\* C9: in the position ChessState() creates, generate_moves returns exactly
\* the 16 pawn pushes and the 4 knight moves, each once.
C9_TwentyOpeningMoves ==
    (ret.op = "generate_moves" /\ state = NewChessState) =>
        /\ Len(ret.value) = 20
        /\ Range(ret.value) = OpeningMoves

\* C9, witness: generate_moves has been called on the initial position
C9_GeneratedAtStart ==
    ret.op = "generate_moves" /\ state = NewChessState

\* C10: the session read back from what was saved holds the position that
\* was saved: piece placement, side to move, castling rights and en-passant
\* target.
C10_ReloadKeepsPosition ==
    ret.op = "from_dict" =>
        /\ state.board = ret.saved.board
        /\ state.active_color = ret.saved.active_color
        /\ state.castling_rights = ret.saved.castling_rights
        /\ state.en_passant_target = ret.saved.en_passant_target

\* a move text in the notation: four characters, or five with a promotion
\* letter, files a to h and ranks 1 to 8
WellFormed(text) ==
    /\ Len(text) = 4 \/ (Len(text) = 5 /\ text[5] \in {"q", "r", "b", "n"})
    /\ text[1] \in {"a", "b", "c", "d", "e", "f", "g", "h"}
    /\ text[3] \in {"a", "b", "c", "d", "e", "f", "g", "h"}
    /\ text[2] \in {"1", "2", "3", "4", "5", "6", "7", "8"}
    /\ text[4] \in {"1", "2", "3", "4", "5", "6", "7", "8"}

\* C11: a malformed move text sent to ChessGameController.make_move is
\* answered with success false, and the session (position, side to move,
\* moves_played, move histories) is as it was before the call
C11_MalformedTextRejected ==
    (ret.op = "controller_make_move" /\ ~WellFormed(ret.text))
        => (~ret.success /\ session = ret.before)

\* the squares the king and the rooks of a colour start on; side 1 is the
\* queenside, side 2 the kingside, as in castling_rights
KingHome(c) == <<4, IF c = WHITE THEN 0 ELSE 7>>
RookHome(c, side) == <<IF side = 1 THEN 0 ELSE 7, IF c = WHITE THEN 0 ELSE 7>>

\* a move of the game so far left the square, or went to it
Vacated(s, sq) ==
    \E i \in DOMAIN s.move_history :
        SubSeq(s.move_history[i], 1, 2) = <<Chr(97 + sq[1]), Str(sq[2] + 1)>>
Entered(s, sq) ==
    \E i \in DOMAIN s.move_history :
        SubSeq(s.move_history[i], 3, 4) = <<Chr(97 + sq[1]), Str(sq[2] + 1)>>

\* the king or the rook of this castling has moved, or the rook was captured
\* on its square
RightLost(s, c, side) ==
    \/ Vacated(s, KingHome(c))
    \/ Vacated(s, RookHome(c, side))
    \/ Entered(s, RookHome(c, side))

\* C12: once the king or the rook of a castling has moved, or the rook has
\* been captured on its square, the castling_rights flag is False in every
\* later state and generate_moves does not offer that castling again.
C12_CastlingRightsCleared ==
    \A c \in PieceColor, side \in {1, 2} :
        RightLost(state, c, side) =>
            /\ ~state.castling_rights[c][side]
            /\ (ret.op = "generate_moves" /\ state.active_color = c) =>
                   \A i \in DOMAIN ret.value :
                       ~(/\ IsCastling(state, ret.value[i])
                         /\ (ret.value[i][2][1] > ret.value[i][1][1]) = (side = 2))

\* the rank a pawn of the colour promotes on
LastRank(c) == IF c = WHITE THEN 7 ELSE 0

\* C13: after make_move has moved a pawn onto its last rank, the square it
\* went to holds a piece of the same colour that is not a pawn (the Queen,
\* as make_move takes no promotion piece), and no pawn of the position
\* stands on its last rank.
C13_PawnPromoted ==
    (/\ ret.op = "make_move"
     /\ ret.returned
     /\ ret.piece.piece_type = PAWN
     /\ ret.move[2][2] = LastRank(ret.piece.color))
        => /\ get_piece_at(state, ret.move[2][1], ret.move[2][2])
                  = ChessPiece(QUEEN, ret.piece.color)
           /\ \A sq \in DOMAIN state.board :
                  state.board[sq].piece_type = PAWN
                      => sq[2] # LastRank(state.board[sq].color)

\* C14: after n successful make_move calls from the initial position the side
\* to move is White when n is even and Black when n is odd, with calls of
\* generate_moves and get_best_move (which evaluates positions) made at any
\* point between the moves.
C14_SideToMoveAlternates ==
    state.active_color =
        IF Len(state.move_history) % 2 = 0 THEN WHITE ELSE BLACK

\* C14 witness: an odd number of moves has been made, the last of them after
\* the engine had searched a position of the game
C14_MovesAroundSearch ==
    /\ ret.op = "make_move"
    /\ ret.returned
    /\ ai.nodes_searched > 0
    /\ Len(state.move_history) = 5
    /\ state.active_color = BLACK

\* C15: a call of get_best_move made by a game thread while other game
\* threads make theirs ends with the move and the statistics
\* (nodes_searched) it ends with when it runs alone.
C15_SearchesShareNoState ==
    \A t \in DOMAIN threads :
        threads[t].pc = "done" =>
            /\ threads[t].move = threads[t].alone.move
            /\ threads[t].nodes_searched = threads[t].alone.nodes_searched

\* the depth of each difficulty level: 1->2, 2->3, 3->4, 4->5, 5->6, and 4
\* for any other value
DepthTable(difficulty) ==
    IF difficulty \in 1..5 THEN difficulty + 1 ELSE 4

\* C16: after the construction of a ChessAI and any calls of set_difficulty,
\* max_depth is the table entry of the current difficulty, and 4 for a
\* difficulty outside 1..5.
C16_DepthFollowsDifficulty ==
    /\ ai.max_depth = DepthTable(ai.difficulty)
    /\ \A difficulty \in Difficulties :
           NewChessAI(difficulty).max_depth = DepthTable(difficulty)

\* C16 witness: set_difficulty was called with a value outside 1..5 on an
\* engine that had searched at another difficulty
C16_UnknownDifficultySet ==
    /\ ret.op = "set_difficulty"
    /\ ret.difficulty \notin 1..5
    /\ ai.difficulty = ret.difficulty
    /\ ai.max_depth = 4
    /\ ai.nodes_searched > 0

\* C17: when generate_moves holds exactly one move, get_best_move returns
\* that move at every difficulty and whatever it would draw, without a
\* search: nodes_searched is 0 after the call.
C17_OnlyMoveReturnedAtOnce ==
    (ret.op = "get_best_move" /\ Len(generate_moves(state)) = 1)
        => /\ ~ret.raised
           /\ ret.move = generate_moves(state)[1]
           /\ ~ret.searched
           /\ ~ret.replaced
           /\ ret.nodes_searched = 0
           /\ ai.nodes_searched = 0

\* C17 witness: get_best_move has answered at difficulty 1 on the position
\* where the Black king has the one move a8-a7
C17_OnlyMoveAnswered ==
    /\ ret.op = "get_best_move"
    /\ state = python_chess_to_chess_state(OnlyMoveBoard)
    /\ generate_moves(state) = << << <<0, 7>>, <<0, 6>> >> >>
    /\ ai.difficulty = 1
    /\ ret.move = << <<0, 7>>, <<0, 6>> >>

\* C18: in get_best_move the search is left out for a random legal move only
\* at difficulty 1; the move found is replaced only at difficulty 1 or 2, by
\* a legal move other than the move found; at difficulty 3 and above the
\* move returned is the move the search found.
C18_RandomnessByDifficulty ==
    (ret.op = "get_best_move" /\ ~ret.raised /\ Len(generate_moves(state)) > 1)
        => /\ ~ret.searched =>
                  (ai.difficulty = 1 /\ ret.move \in Range(generate_moves(state)))
           /\ ret.replaced =>
                  /\ ai.difficulty <= 2
                  /\ ret.move \in Range(generate_moves(state))
                  /\ ret.move # ret.found
           /\ (ret.searched /\ ~ret.replaced) => ret.move = ret.found
           /\ ai.difficulty >= 3 => (ret.searched /\ ~ret.replaced)

\* C18 witness: at difficulty 2 the move found by the search was replaced
C18_MoveReplaced ==
    /\ ret.op = "get_best_move"
    /\ ai.difficulty = 2
    /\ ret.searched
    /\ ret.replaced
    /\ ret.move # ret.found
    /\ ret.move \in Range(generate_moves(state))

\* C19: when the side to move has no king on the board, the legality test
\* does not pass for 'not in check': generate_moves accepts no move of that
\* position as legal.
C19_NoKingNoLegalMove ==
    (ret.op = "generate_moves" /\ KingSquares(state.board, state.active_color) = {})
        => ret.value = <<>>

\* C20: _alpha_beta called with a depth above 0 on a position where the side
\* to move has no legal move returns minus infinity when that side is in
\* check and maximizes (White), plus infinity when it is in check and
\* minimizes (Black), and 0 when it is not in check.
C20_MateAndStalemateValues ==
    (ret.op = "_alpha_beta" /\ ret.depth > 0 /\ ~HasLegalMove(state))
        => /\ ~ret.raised
           /\ ret.value =
                 IF InCheck(state.board, state.active_color)
                 THEN (IF state.active_color = WHITE THEN NegInf ELSE PosInf)
                 ELSE 0

-----------------------------------------------------------------------------
(* C21: the pawn attacks _is_square_attacked reports *)

\* the first loop of _is_square_attacked alone: what it reports of pawns
PawnAttackReported(s, x, y, color) ==
    StepAttacked(s, x, y,
                 << <<-1, AttackPawnDirection(color)>>, <<1, AttackPawnDirection(color)>> >>,
                 Opponent(color), PAWN)

\* a pawn of the other colour stands where one of its capture squares, the
\* squares _generate_pawn_moves computes for it, is (x, y)
PawnCaptureLandsOn(s, x, y, color) ==
    \E sq \in DOMAIN s.board :
        /\ s.board[sq] = ChessPiece(PAWN, Opponent(color))
        /\ \E dx \in {-1, 1} :
              <<sq[1] + dx, sq[2] + PawnDirection(Opponent(color))>> = <<x, y>>

\* C21: on the position of the game, for every square and either colour,
\* _is_square_attacked reports a pawn attack exactly when a pawn of the other
\* colour stands diagonally adjacent with its forward capture landing on the
\* square (a Black pawn one rank above a White square, a White pawn one rank
\* below a Black one)
C21_PawnAttackIsForwardCapture ==
    \A x \in 0..7, y \in 0..7, color \in PieceColor :
        PawnAttackReported(state, x, y, color) <=> PawnCaptureLandsOn(state, x, y, color)

-----------------------------------------------------------------------------
(* C22: one king of each colour *)

\* C22: in every position reached from the initial position by moves of
\* generate_moves applied with make_move, the board holds exactly one White
\* king and exactly one Black king
C22_OneKingEach ==
    \A color \in PieceColor : Cardinality(KingSquares(state.board, color)) = 1

-----------------------------------------------------------------------------
(* C23: generated moves stay on the board *)

\* C23: in every position reached from the initial position by generated
\* moves, every move of generate_moves has its origin and its destination on
\* the board, file and rank both in 0..7, castling moves included
C23_GeneratedMovesOnBoard ==
    \A move \in Range(generate_moves(state)) :
        OnBoard(move[1][1], move[1][2]) /\ OnBoard(move[2][1], move[2][2])

-----------------------------------------------------------------------------
(* Positions as objects.  A ChessState is an object that refers to a board  *)
(* dict, a castling_rights dict and a move_history list; a copy that took   *)
(* the reference of one of them instead of a new object would share it with *)
(* the state copied.  heap.at maps the identity of an object to its value,  *)
(* heap.next is the next identity.  A ChessPiece is held by value: after    *)
(* ChessPiece.__init__ no assignment to piece_type or color exists, and the *)
(* tuples of castling_rights and en_passant_target are immutable.           *)

EmptyHeap == [next |-> 1, at |-> <<>>]

\* a new object
Alloc(heap, obj) ==
    [heap |-> [next |-> heap.next + 1, at |-> (heap.next :> obj) @@ heap.at],
     ref |-> heap.next]

\* the objects made since mark are dropped: the locals of a call that has
\* returned, or the value of a loop variable that is bound anew
Release(heap, mark) ==
    [next |-> mark,
     at |-> [id \in {i \in DOMAIN heap.at : i < mark} |-> heap.at[id]]]

\* a list.copy() that hands back the list itself
list_alias(heap, ref) == [heap |-> heap, ref |-> ref]

\* dict.copy() and list.copy(): a new object of the same items
dict_copy(heap, ref) == Alloc(heap, heap.at[ref])
list_copy(heap, ref) == Alloc(heap, heap.at[ref])

\* {color: rights[:] for color, rights in castling_rights.items()}
castling_rights_copy(heap, ref) ==
    Alloc(heap, [items |-> [color \in DOMAIN heap.at[ref].items |-> heap.at[ref].items[color]],
                 order |-> heap.at[ref].order])

\* ChessState(): the object and the three objects it refers to
ChessState_init(heap) ==
    LET b == Alloc(heap, [items |-> InitialBoard, order |-> InitialOrder])
        c == Alloc(b.heap, [items |-> [color \in PieceColor |-> <<TRUE, TRUE>>],
                            order |-> <<WHITE, BLACK>>])
        h == Alloc(c.heap, [items |-> <<>>])
    IN  Alloc(h.heap, [board |-> b.ref,
                       active_color |-> WHITE,
                       castling_rights |-> c.ref,
                       en_passant_target |-> NoSquare,
                       halfmove_clock |-> 0,
                       fullmove_number |-> 1,
                       move_history |-> h.ref])

\* the position a ChessState object holds, read through its references
ValueOf(heap, state_ref) ==
    LET self == heap.at[state_ref]
    IN  [board |-> heap.at[self.board].items,
         board_order |-> heap.at[self.board].order,
         active_color |-> self.active_color,
         castling_rights |-> heap.at[self.castling_rights].items,
         en_passant_target |-> self.en_passant_target,
         halfmove_clock |-> self.halfmove_clock,
         fullmove_number |-> self.fullmove_number,
         move_history |-> heap.at[self.move_history].items]

\* a ChessState object of the position s, as the caller of the engine holds
\* it: the objects of ChessState(), filled with the position
ObjectOf(s) ==
    LET n == ChessState_init(EmptyHeap)
        self == n.heap.at[n.ref]
    IN  [heap |-> [n.heap EXCEPT
                      !.at[self.board] = [items |-> s.board, order |-> s.board_order],
                      !.at[self.castling_rights].items = s.castling_rights,
                      !.at[self.move_history].items = s.move_history,
                      !.at[n.ref].active_color = s.active_color,
                      !.at[n.ref].en_passant_target = s.en_passant_target,
                      !.at[n.ref].halfmove_clock = s.halfmove_clock,
                      !.at[n.ref].fullmove_number = s.fullmove_number],
         ref |-> n.ref]

\* piece = board.pop(from); board[to] = piece, on the dict object itself
board_pop_assign(heap, board_ref, from, to) ==
    [heap EXCEPT !.at[board_ref] =
        [items |-> BoardAfterMove(@.items, from, to),
         order |-> OrderAfterMove(@.items, @.order, from, to)]]

\* MoveGenerator._copy_state
Obj_copy_state(heap, state_ref) ==
    LET n == ChessState_init(heap)
        b == dict_copy(n.heap, heap.at[state_ref].board)
        c == castling_rights_copy(b.heap, heap.at[state_ref].castling_rights)
    IN  [heap |-> [c.heap EXCEPT
                      !.at[n.ref].board = b.ref,
                      !.at[n.ref].active_color = heap.at[state_ref].active_color,
                      !.at[n.ref].en_passant_target = heap.at[state_ref].en_passant_target,
                      !.at[n.ref].castling_rights = c.ref],
         ref |-> n.ref]

\* MoveGenerator._would_be_in_check_after_move: new_state is a local of the
\* call.  The three operators are its stages: the copy, the move on the
\* copy, the search for the king and the test of its square.
ObjKingAttacked(new_state, active_color, king_pos) ==
    IF king_pos = NoSquare THEN FALSE
    ELSE _is_square_attacked(new_state, king_pos[1], king_pos[2], active_color)

ObjCheckAfterMove(heap, state_ref, new_ref, moved, new_state) ==
    [heap |-> Release(moved, heap.next),
     value |-> ObjKingAttacked(new_state, moved.at[state_ref].active_color,
                               FindKing(new_state, moved.at[state_ref].active_color))]

ObjMovedOnCopy(heap, state_ref, new_ref, moved) ==
    ObjCheckAfterMove(heap, state_ref, new_ref, moved, ValueOf(moved, new_ref))

ObjCopiedForCheck(heap, state_ref, move, copied) ==
    ObjMovedOnCopy(heap, state_ref, copied.ref,
                   board_pop_assign(copied.heap, copied.heap.at[copied.ref].board,
                                    move[1], move[2]))

Obj_would_be_in_check_after_move(heap, state_ref, move) ==
    ObjCopiedForCheck(heap, state_ref, move, Obj_copy_state(heap, state_ref))

\* the filter loop of _generate_piece_moves, from the k-th move on, and its
\* body after the call of _would_be_in_check_after_move
RECURSIVE ObjLegalMoves(_, _, _, _, _)
RECURSIVE ObjLegalMove(_, _, _, _, _)

ObjLegalMoves(heap, state_ref, moves, k, legal_moves) ==
    IF k > Len(moves) THEN [heap |-> heap, moves |-> legal_moves]
    ELSE ObjLegalMove(state_ref, moves, k, legal_moves,
                      Obj_would_be_in_check_after_move(heap, state_ref, moves[k]))

ObjLegalMove(state_ref, moves, k, legal_moves, checked) ==
    ObjLegalMoves(checked.heap, state_ref, moves, k + 1,
                  IF checked.value THEN legal_moves
                  ELSE Append(legal_moves, moves[k]))

\* the loop of generate_moves over the items of the board, from the i-th on,
\* and its body after _generate_piece_moves
RECURSIVE ObjMovesFrom(_, _, _, _)
RECURSIVE ObjPieceMoves(_, _, _, _)

ObjMovesFrom(heap, state_ref, i, legal_moves) ==
    LET s == ValueOf(heap, state_ref)
        sq == s.board_order[i]
        piece == s.board[sq]
    IN  IF i > Len(s.board_order) THEN [heap |-> heap, moves |-> legal_moves]
        ELSE IF piece.color # s.active_color
        THEN ObjMovesFrom(heap, state_ref, i + 1, legal_moves)
        ELSE ObjPieceMoves(state_ref, i, legal_moves,
                           ObjLegalMoves(heap, state_ref,
                                         PseudoLegalMoves(s, sq[1], sq[2], piece),
                                         1, <<>>))

ObjPieceMoves(state_ref, i, legal_moves, piece_moves) ==
    ObjMovesFrom(piece_moves.heap, state_ref, i + 1, legal_moves \o piece_moves.moves)

\* MoveGenerator.generate_moves
Obj_generate_moves(heap, state_ref) == ObjMovesFrom(heap, state_ref, 1, <<>>)

\* ChessState.make_move on the object itself
Obj_make_move(heap, state_ref, from_x, from_y, to_x, to_y) ==
    LET self == heap.at[state_ref]
        color == Opponent(self.active_color)
        moved == board_pop_assign(heap, self.board, <<from_x, from_y>>, <<to_x, to_y>>)
    IN  [moved EXCEPT
            !.at[state_ref].active_color = color,
            !.at[state_ref].fullmove_number = IF color = WHITE THEN @ + 1 ELSE @,
            !.at[self.move_history].items =
                Append(@, coords_to_algebraic(from_x, from_y, to_x, to_y))]

\* ChessAI._make_move_copy
Obj_make_move_copy(heap, state_ref, move) ==
    LET n == ChessState_init(heap)
        b == dict_copy(n.heap, heap.at[state_ref].board)
        c == castling_rights_copy(b.heap, heap.at[state_ref].castling_rights)
        h == list_copy(c.heap, heap.at[state_ref].move_history)
        new_state ==
            [h.heap EXCEPT
                !.at[n.ref].board = b.ref,
                !.at[n.ref].active_color = heap.at[state_ref].active_color,
                !.at[n.ref].castling_rights = c.ref,
                !.at[n.ref].en_passant_target = heap.at[state_ref].en_passant_target,
                !.at[n.ref].halfmove_clock = heap.at[state_ref].halfmove_clock,
                !.at[n.ref].fullmove_number = heap.at[state_ref].fullmove_number,
                !.at[n.ref].move_history = h.ref]
    IN  [heap |-> Obj_make_move(new_state, n.ref, move[1][1], move[1][2],
                                move[2][1], move[2][2]),
         ref |-> n.ref]

\* ChessAI._alpha_beta on objects.  A result is the heap the call leaves,
\* the value, the counter, whether IndexError was raised, and intact: at no
\* node of the call did the position of the node differ, after the search
\* below one of its moves, from what it was before that move was copied
RECURSIVE Obj_alpha_beta(_, _, _, _, _, _, _, _)
RECURSIVE ObjAlphaBetaMoves(_, _, _, _, _, _, _, _)
RECURSIVE ObjAlphaBetaLoop(_, _, _, _, _, _, _, _, _, _, _, _)
RECURSIVE ObjAlphaBetaCopied(_, _, _, _, _, _, _, _, _, _, _, _, _)
RECURSIVE ObjAlphaBetaChild(_, _, _, _, _, _, _, _, _, _, _, _, _)

ObjAlphaBetaLeaf(heap, e, nodes) ==
    [heap |-> heap, value |-> e.value, nodes |-> nodes, raised |-> e.raised,
     intact |-> TRUE]

Obj_alpha_beta(heap, state_ref, depth, alpha, beta, maximizing_player, nodes, noise) ==
    LET s == ValueOf(heap, state_ref)
    IN  IF depth = 0 \/ is_checkmate(s) \/ is_stalemate(s)
        THEN ObjAlphaBetaLeaf(heap, _evaluate_position(s, NoiseAt(noise, nodes + 1)),
                              nodes + 1)
        ELSE ObjAlphaBetaMoves(state_ref, Obj_generate_moves(heap, state_ref),
                               depth, alpha, beta, maximizing_player, nodes + 1, noise)

ObjAlphaBetaMoves(state_ref, generated, depth, alpha, beta, maximizing_player, nodes, noise) ==
    LET s == ValueOf(generated.heap, state_ref)
    IN  IF generated.moves = <<>>
        THEN [heap |-> generated.heap,
              value |-> IF is_check(s)
                        THEN (IF maximizing_player THEN NegInf ELSE PosInf)
                        ELSE 0,
              nodes |-> nodes, raised |-> FALSE, intact |-> TRUE]
        ELSE IF OrderRaises(generated.moves, s)
        THEN [heap |-> generated.heap, value |-> 0, nodes |-> nodes,
              raised |-> TRUE, intact |-> TRUE]
        ELSE ObjAlphaBetaLoop(generated.heap, state_ref,
                              _order_moves(generated.moves, s), 1, depth, alpha, beta,
                              maximizing_player,
                              IF maximizing_player THEN NegInf ELSE PosInf,
                              nodes, noise, TRUE)

ObjAlphaBetaLoop(heap, state_ref, ordered_moves, i, depth, alpha, beta, maximizing_player, value, nodes, noise, intact) ==
    IF i > Len(ordered_moves)
    THEN [heap |-> heap, value |-> value, nodes |-> nodes, raised |-> FALSE,
          intact |-> intact]
    ELSE ObjAlphaBetaCopied(heap, state_ref, ordered_moves, i, depth, alpha, beta,
                            maximizing_player, value, nodes, noise, intact,
                            Obj_make_move_copy(heap, state_ref, ordered_moves[i]))

ObjAlphaBetaCopied(heap, state_ref, ordered_moves, i, depth, alpha, beta, maximizing_player, value, nodes, noise, intact, new_state) ==
    ObjAlphaBetaChild(heap, state_ref, ordered_moves, i, depth, alpha, beta,
                      maximizing_player, value, nodes, noise, intact,
                      Obj_alpha_beta(new_state.heap, new_state.ref, depth - 1,
                                     alpha, beta, ~maximizing_player, nodes, noise))

ObjAlphaBetaChild(heap, state_ref, ordered_moves, i, depth, alpha, beta, maximizing_player, value, nodes, noise, intact, child) ==
    LET after == Release(child.heap, heap.next)
        still == /\ intact
                 /\ child.intact
                 /\ ValueOf(after, state_ref) = ValueOf(heap, state_ref)
        new_value == IF maximizing_player THEN Max(value, child.value)
                     ELSE Min(value, child.value)
        new_alpha == IF maximizing_player THEN Max(alpha, new_value) ELSE alpha
        new_beta == IF maximizing_player THEN beta ELSE Min(beta, new_value)
    IN  IF child.raised
        THEN [heap |-> after, value |-> 0, nodes |-> child.nodes, raised |-> TRUE,
              intact |-> still]
        ELSE IF Cutoff(new_alpha, new_beta)
        THEN [heap |-> after, value |-> new_value, nodes |-> child.nodes,
              raised |-> FALSE, intact |-> still]
        ELSE ObjAlphaBetaLoop(after, state_ref, ordered_moves, i + 1, depth,
                              new_alpha, new_beta, maximizing_player, new_value,
                              child.nodes, noise, still)

\* the loop of get_best_move over the ordered root moves, on objects
RECURSIVE ObjRootLoop(_, _, _, _, _, _, _, _, _, _, _, _)
RECURSIVE ObjRootCopied(_, _, _, _, _, _, _, _, _, _, _, _, _)
RECURSIVE ObjRootChild(_, _, _, _, _, _, _, _, _, _, _, _)

ObjRootLoop(heap, state_ref, ordered_moves, i, current_depth, alpha, beta, best_value, best_move, nodes, noise, intact) ==
    IF i > Len(ordered_moves)
    THEN [heap |-> heap, best_value |-> best_value, best_move |-> best_move,
          nodes |-> nodes, raised |-> FALSE, intact |-> intact]
    ELSE ObjRootCopied(heap, state_ref, ordered_moves, i, current_depth, alpha, beta,
                       best_value, best_move, nodes, noise, intact,
                       Obj_make_move_copy(heap, state_ref, ordered_moves[i]))

ObjRootCopied(heap, state_ref, ordered_moves, i, current_depth, alpha, beta, best_value, best_move, nodes, noise, intact, new_state) ==
    ObjRootChild(heap, state_ref, ordered_moves, i, current_depth, alpha, beta,
                 best_value, best_move, noise, intact,
                 Obj_alpha_beta(new_state.heap, new_state.ref, current_depth - 1,
                                alpha, beta,
                                heap.at[state_ref].active_color # WHITE, nodes, noise))

ObjRootChild(heap, state_ref, ordered_moves, i, current_depth, alpha, beta, best_value, best_move, noise, intact, child) ==
    LET after == Release(child.heap, heap.next)
        still == /\ intact
                 /\ child.intact
                 /\ ValueOf(after, state_ref) = ValueOf(heap, state_ref)
        white == after.at[state_ref].active_color = WHITE
        better == IF white THEN child.value > best_value
                  ELSE child.value < best_value
        new_best == IF better THEN child.value ELSE best_value
    IN  IF child.raised
        THEN [heap |-> after, best_value |-> best_value, best_move |-> best_move,
              nodes |-> child.nodes, raised |-> TRUE, intact |-> still]
        ELSE ObjRootLoop(after, state_ref, ordered_moves, i + 1, current_depth,
                         IF white THEN Max(alpha, new_best) ELSE alpha,
                         IF white THEN beta ELSE Min(beta, new_best),
                         new_best,
                         IF better THEN ordered_moves[i] ELSE best_move,
                         child.nodes, noise, still)

\* the depth loop of get_best_move on objects
RECURSIVE ObjDepthLoop(_, _, _, _, _, _, _, _, _, _)
RECURSIVE ObjDepthPass(_, _, _, _, _, _, _)

ObjDepthLoop(heap, state_ref, legal_moves, current_depth, max_depth, expired, best_move, nodes, noise, intact) ==
    LET s == ValueOf(heap, state_ref)
        initial == IF s.active_color = WHITE THEN NegInf ELSE PosInf
    IN  IF current_depth > max_depth
        THEN [heap |-> heap, best_value |-> initial, best_move |-> best_move,
              nodes |-> nodes, raised |-> FALSE, depth |-> current_depth - 1,
              intact |-> intact]
        ELSE IF OrderRaises(legal_moves, s)
        THEN [heap |-> heap, best_value |-> initial, best_move |-> best_move,
              nodes |-> nodes, raised |-> TRUE, depth |-> current_depth - 1,
              intact |-> intact]
        ELSE ObjDepthPass(state_ref, legal_moves, current_depth, max_depth, expired,
                          noise,
                          ObjRootLoop(heap, state_ref, _order_moves(legal_moves, s), 1,
                                      current_depth, NegInf, PosInf, initial,
                                      best_move, nodes, noise, intact))

ObjDepthPass(state_ref, legal_moves, current_depth, max_depth, expired, noise, pass) ==
    IF pass.raised \/ current_depth >= expired \/ current_depth = max_depth
    THEN [heap |-> pass.heap, best_value |-> pass.best_value,
          best_move |-> pass.best_move, nodes |-> pass.nodes,
          raised |-> pass.raised,
          depth |-> IF pass.raised THEN current_depth - 1 ELSE current_depth,
          intact |-> pass.intact]
    ELSE ObjDepthLoop(pass.heap, state_ref, legal_moves, current_depth + 1, max_depth,
                      expired, pass.best_move, pass.nodes, noise, pass.intact)

\* get_best_move on objects, after generate_moves: the move it returns as
\* BestMoveAmong has it, with the heap it leaves
ObjBestMoveFound(legal_moves, a, draw, found) ==
    [heap |-> found.heap,
     move |-> BestMoveFound(legal_moves, a, draw, found).move,
     raised |-> found.raised,
     nodes_searched |-> found.nodes,
     depth |-> found.depth,
     intact |-> found.intact]

ObjBestMoveAmong(state_ref, a, draw, generated) ==
    LET quick(move) ==
            [heap |-> generated.heap, move |-> move, raised |-> FALSE,
             nodes_searched |-> 0, depth |-> 0, intact |-> TRUE]
        legal_moves == generated.moves
    IN  IF legal_moves = <<>> THEN quick(NoMove)
        ELSE IF Len(legal_moves) = 1 THEN quick(legal_moves[1])
        ELSE IF a.difficulty = 1 /\ draw.skip
        THEN quick(legal_moves[((draw.pick - 1) % Len(legal_moves)) + 1])
        ELSE ObjBestMoveFound(legal_moves, a, draw,
                              ObjDepthLoop(generated.heap, state_ref, legal_moves, 1,
                                           a.max_depth, draw.expired, NoMove, 0,
                                           draw.noise, TRUE))

Obj_get_best_move(heap, state_ref, a, draw) ==
    ObjBestMoveAmong(state_ref, a, draw, Obj_generate_moves(heap, state_ref))

-----------------------------------------------------------------------------
(* The engine called on a ChessState object the caller holds *)

\* what the caller has after generate_moves(state): the list returned, and
\* in state the position its object holds then
Generated(s, state_ref, r) ==
    [op |-> "generate_moves", value |-> r.moves, intact |-> TRUE,
     before |-> s, state |-> ValueOf(r.heap, state_ref)]

Call_Obj_generate_moves(s) ==
    Generated(s, ObjectOf(s).ref, Obj_generate_moves(ObjectOf(s).heap, ObjectOf(s).ref))

\* what the caller has after get_best_move(state)
Searched(s, state_ref, r) ==
    [op |-> "get_best_move", move |-> r.move, raised |-> r.raised,
     nodes_searched |-> r.nodes_searched, depth |-> r.depth,
     intact |-> r.intact,
     before |-> s, state |-> ValueOf(r.heap, state_ref)]

Call_Obj_get_best_move(s, a, draw) ==
    Searched(s, ObjectOf(s).ref,
             Obj_get_best_move(ObjectOf(s).heap, ObjectOf(s).ref, a, draw))

\* what the caller has after _make_move_copy(state, move): the position of
\* the new object, and in state the position of its own
Copied(s, state_ref, move, r) ==
    [op |-> "_make_move_copy", move |-> move, value |-> ValueOf(r.heap, r.ref),
     intact |-> TRUE,
     before |-> s, state |-> ValueOf(r.heap, state_ref)]

Call_Obj_make_move_copy(s, move) ==
    Copied(s, ObjectOf(s).ref, move,
           Obj_make_move_copy(ObjectOf(s).heap, ObjectOf(s).ref, move))

\* the draws of a call that searches and returns the move it found
SearchDraws(a) ==
    {draw \in Draws(a) : ~draw.skip /\ ~draw.replace /\ draw.noise = <<0>>}

InitObjects ==
    /\ state \in Positions
    /\ ai \in {NewChessAI(difficulty) : difficulty \in 1..5}
    /\ ret = [op |-> "init"]
    /\ session = NewGameSession(WHITE, 3)
    /\ threads = <<>>

ObjGenerateMoves ==
    /\ ret' = Call_Obj_generate_moves(state)
    /\ state' = ret'.state
    /\ UNCHANGED <<ai, session, threads>>

ObjGetBestMove ==
    /\ \E draw \in SearchDraws(ai) : ret' = Call_Obj_get_best_move(state, ai, draw)
    /\ state' = ret'.state
    /\ ai' = [ai EXCEPT !.nodes_searched = ret'.nodes_searched]
    /\ UNCHANGED <<session, threads>>

ObjMakeMoveCopy ==
    /\ \E move \in Range(generate_moves(state)) :
          ret' = Call_Obj_make_move_copy(state, move)
    /\ state' = ret'.state
    /\ UNCHANGED <<ai, session, threads>>

NextObjects ==
    \/ Fresh /\ ObjGenerateMoves
    \/ Fresh /\ ObjGetBestMove
    \/ Fresh /\ ObjMakeMoveCopy

SpecObjects == InitObjects /\ [][NextObjects]_vars

-----------------------------------------------------------------------------
(* C24: the calls of the engine leave the caller's position alone *)

\* C24: generate_moves(state) and get_best_move(state) leave the state
\* passed to them as it was, in every field, and inside the search the move
\* that _make_move_copy applies in one branch shows neither in the position
\* of the parent node nor, through it, in a sibling branch
C24_StateLeftUnchanged ==
    ret.op \in {"generate_moves", "get_best_move", "_make_move_copy"}
        => /\ state = ret.before
           /\ ret.intact
           /\ ret.op = "_make_move_copy"
                => ret.value = _make_move_copy(ret.before, ret.move)

\* witness of C24: a search of two plies has returned a move, so that copies
\* were made at the root and below it
C24_SearchedBelowRoot ==
    /\ ret.op = "get_best_move"
    /\ ret.depth = 2
    /\ ret.nodes_searched > Len(generate_moves(state))
    /\ ret.move \in Range(generate_moves(state))

-----------------------------------------------------------------------------
(* C25: the depths of get_best_move and the clock *)

\* C25: a call of get_best_move that searches (two legal moves or more, no
\* random move instead of the search) completes the passes of the depths 1,
\* 2, ... in this order, each over every root move, and reads the clock only
\* after a pass: the last depth completed is the first one at whose end the
\* clock has expired, or max_depth when that comes first; it is 1 at least,
\* and the call returns
C25_DepthsBeforeClock ==
    (ret.op = "get_best_move" /\ ret.searched)
        => /\ ~ret.raised
           /\ ret.depth >= 1
           /\ ret.depth = Min(ret.expired, ai.max_depth)
           /\ ret.nodes_searched >= ret.depth * Len(generate_moves(state))

-----------------------------------------------------------------------------
(* C26: the piece-square score under the exchange of the colours *)

\* the position with the colour of every piece swapped and every rank
\* mirrored, y to 7 - y
Mirrored(s) ==
    LET flip(sq) == <<sq[1], 7 - sq[2]>>
    IN  [s EXCEPT
            !.board = [sq \in {flip(from) : from \in DOMAIN s.board} |->
                          ChessPiece(s.board[flip(sq)].piece_type,
                                     Opponent(s.board[flip(sq)].color))],
            !.board_order = [i \in DOMAIN s.board_order |-> flip(s.board_order[i])]]

\* C26: evaluate_piece_position is colour-antisymmetric in every game phase:
\* the score of the position with the colours swapped and the ranks mirrored
\* is the negated score of the position, the king of either colour being
\* scored from the same phase-blended table
C26_PiecePositionAntisymmetric ==
    (ret.op = "evaluate_piece_position" /\ ~ret.raised)
        => evaluate_piece_position(Mirrored(state)) = 0 - ret.value

-----------------------------------------------------------------------------
(* game_controller.py: a session played through commands *)

\* moves a session has to hold, when an operation of the controller is
\* called on it, for the clock to let the engine finish the second pass of
\* its search
DeepSearchPly == 4

\* the games a user plays: a queen and bishop attack on f7, a walk of the
\* king to g3, and an answer to the first move of the engine
Lines(user_color) ==
    IF user_color = WHITE
    THEN { << <<"e", "2", "e", "4">>, <<"d", "1", "h", "5">>,
              <<"f", "1", "c", "4">>, <<"h", "5", "f", "7">> >>,
           << <<"f", "2", "f", "4">>, <<"e", "1", "f", "2">>,
              <<"f", "2", "g", "3">> >> }
    ELSE { << <<"e", "7", "e", "5">> >> }

\* the texts of the moves the user has made in a session.  record_move reads
\* active_color after make_move has handed the turn over, so the entry of a
\* move of the user says "ai".
UserMoves(self) ==
    LET made == SelectSeq(self.move_history, LAMBDA entry : entry.player = "ai")
    IN  [i \in DOMAIN made |-> made[i].algebraic]

\* the texts the user sends next: the next move of a game that began with
\* the moves made so far
NextTexts(self) ==
    { line[Len(UserMoves(self)) + 1] :
        line \in { l \in Lines(self.user_color) :
                     /\ Len(l) > Len(UserMoves(self))
                     /\ SubSeq(l, 1, Len(UserMoves(self))) = UserMoves(self) } }

\* the commands sent to handle_command that ask for a move, each with its
\* args
MoveCommands(self) ==
    {"move"} \X { <<text>> : text \in NextTexts(self) }

\* the commands sent to handle_command that make no move, each with its args
OtherCommands ==
    ({"resign", "RESIGN", "draw", "Draw", "status", "help"} \X {<<>>})
        \cup {<<"move", <<>> >>}

\* what the engine draws in a game: no move is replaced by another, the
\* leaves are scored without noise, and the clock stops the search after its
\* first pass before DeepSearchPly
GameDraws(self) ==
    { draw \in Draws(NewChessAI(self.difficulty)) :
        /\ ~draw.replace
        /\ draw.noise = <<0>>
        /\ draw.expired = 1 \/ self.moves_played >= DeepSearchPly }

\* a draw for the calls that do not reach get_best_move
NoDraw ==
    [skip |-> FALSE, pick |-> 1, replace |-> FALSE, other |-> 1,
     noise |-> <<0>>, expired |-> 1]

\* what an operation of the controller leaves behind
Operated(op, command, self, r) ==
    [op |-> op, command |-> command, before |-> self, success |-> r.success,
     session |-> r.session, ai |-> r.ai, game_over |-> r.game_over,
     outcome |-> r.outcome, reason |-> r.reason, saved |-> r.saved]

InitGame ==
    /\ state = NewChessState
    /\ threads = <<>>
    /\ \E user_color \in PieceColor :
        \E draw \in GameDraws(NewGameSession(user_color, 1)) :
            ret = Operated("create_game", "", NewGameSession(user_color, 1),
                           create_game(NewChessAI(3), user_color, 1, draw))
    /\ session = ret.session
    /\ ai = ret.ai

\* ChessGameController.handle_command is called on the session with a move
\* of the user
HandleMove ==
    /\ \E c \in MoveCommands(session), draw \in GameDraws(session) :
          ret' = Operated("handle_command", lower(c[1]), session,
                          handle_command(session, ai, c[1], c[2], draw))
    /\ session' = ret'.session
    /\ ai' = ret'.ai
    /\ UNCHANGED <<state, threads>>

\* ChessGameController.handle_command is called on the session with a
\* command that makes no move
HandleCommand ==
    /\ \E c \in OtherCommands :
          ret' = Operated("handle_command", lower(c[1]), session,
                          handle_command(session, ai, c[1], c[2], NoDraw))
    /\ session' = ret'.session
    /\ ai' = ret'.ai
    /\ UNCHANGED <<state, threads>>

\* ChessGameController.make_ai_move is called on the session
MakeAiMove ==
    /\ \E draw \in GameDraws(session) :
          ret' = Operated("make_ai_move", "", session,
                          make_ai_move(session, ai, draw))
    /\ session' = ret'.session
    /\ ai' = ret'.ai
    /\ UNCHANGED <<state, threads>>

NextGame == HandleMove \/ HandleCommand \/ MakeAiMove

SpecGame == InitGame /\ [][NextGame]_vars

-----------------------------------------------------------------------------
(* Claims about the controller of a game *)

\* the last operation of the controller made a move in the session
MoveJustMade == session.moves_played > ret.before.moves_played

\* C27: when a move made through the controller leaves the side to move in
\* checkmate, the session is ended with the outcome <mover>_win and the
\* reason checkmate; it is not ended as a draw and it does not go on
C27_MateEndsWithWin ==
    (MoveJustMade /\ Checkmated(session.state))
        => /\ ~session.is_active
           /\ session.outcome =
                 ColorName(Opponent(session.state.active_color)) \o "_win"
           /\ session.outcome_reason = "checkmate"

\* C28: when an operation of the controller (create_game, handle_command,
\* make_move, make_ai_move) has returned and the session is active, the user
\* is to move
C28_UserToMoveWhenActive ==
    session.is_active => session.state.active_color = session.user_color

\* C29: once a session has ended, no later command (move, resign, draw,
\* status) changes its outcome, its reason or its position
C29_EndedSessionKept ==
    (ret.op = "handle_command" /\ ~ret.before.is_active)
        => /\ session.outcome = ret.before.outcome
           /\ session.outcome_reason = ret.before.outcome_reason
           /\ session.state = ret.before.state

\* the last operation of the controller ended the session
SessionJustEnded == ret.before.is_active /\ ~session.is_active

\* C30: the response of a command that ends a game reports the outcome and
\* the reason that the session holds and that were written to the file of
\* the session
C30_ResponseReportsStored ==
    SessionJustEnded
        => /\ ret.game_over
           /\ ret.outcome = session.outcome
           /\ ret.reason = session.outcome_reason
           /\ ret.saved # <<>>
           /\ ret.saved[1].outcome = ret.outcome
           /\ ret.saved[1].outcome_reason = ret.reason

====
